---- MODULE Spec2Model ----
(***************************************************************************)
(* A model of primavera_val (src/primavera_val/__init__.py): the filename  *)
(* decoder, the frequency resolver, the partial-date parser, the checks of *)
(* a file's time axis and data points, the metadata of a file's contents   *)
(* and the listing of a directory; and of main of src/bin/validate_data.py *)
(* and src/bin/validate_directory.py.  Python strings are TLA+ strings,    *)
(* used through Len, SubSeq and \o only.  A call either returns a value or *)
(* raises: Return(v) and Raise(e, msg) below.                              *)
(***************************************************************************)
EXTENDS Integers, Sequences, FiniteSets, TLC

VARIABLES
    pc,           \* "call" before the function under study ran, "done" after
    table_name,   \* argument of _get_frequency
    frequency,    \* what _get_frequency returned or raised
    filename,     \* argument of identify_filename_metadata
    file_format,  \* argument of identify_filename_metadata
    decoded,      \* what identify_filename_metadata returned or raised
    metadata,     \* the metadata dict handed to a check
    cube,         \* the loaded data source handed to a check
    data_start,   \* _check_start_end_times: the data's start, as compared
    data_end,     \* _check_start_end_times: the data's end, as compared
    checked,      \* what the check returned or raised
    draws,        \* the random numbers that a data-point check draws
    point_index,  \* the index that a data-point check built
    cfreader,     \* the CF metadata handed to a cell-measure check
    contents,     \* what identify_contents_metadata returned or raised
    directory,    \* argument of list_files: a directory and what is in it
    suffix,       \* argument of list_files
    nc_files,     \* what list_files returned
    args,         \* the command line of a script
    data_files,   \* main: the files to validate
    position,     \* main: how many files the loop is through
    num_errors_found,  \* main: the files that failed validation
    output,       \* main: _output, the metadata of the files that passed
    exit_status   \* the exit status of the script, None while it runs

\* the variables of one call of a function of the library
function_vars == <<pc, table_name, frequency, filename, file_format, decoded,
                   metadata, cube, data_start, data_end, checked>>

\* the arguments, locals and results of the functions of the library
call_vars == <<table_name, frequency, filename, file_format, decoded,
               metadata, cube, data_start, data_end, checked>>

\* the variables of a data-point check and of the contents metadata
point_vars == <<draws, point_index, cfreader, contents>>

\* the variables of list_files
listing_vars == <<directory, suffix, nc_files>>

\* the variables of a script's main
main_vars == <<args, data_files, position, num_errors_found, output,
               exit_status>>

vars == <<function_vars, point_vars, listing_vars, main_vars>>

----------------------------------------------------------------------------
(* Outcomes of a Python call *)

Return(v) == [exc |-> "", value |-> v]

Raise(e, msg) == [exc |-> e, msg |-> msg]

Raised(r, e) == r.exc = e

Returned(r) == r.exc = ""

\* Python's None
None == [none |-> TRUE]

\* the value of a variable that the specification at hand does not use
Unused == [unused |-> TRUE]

\* no data-point check, no listing and no script is under study
OneFunctionOnly ==
    /\ draws = Unused /\ point_index = Unused /\ cfreader = Unused
    /\ contents = Unused
    /\ directory = Unused /\ suffix = Unused /\ nc_files = Unused
    /\ args = Unused /\ data_files = Unused /\ position = Unused
    /\ num_errors_found = Unused /\ output = Unused /\ exit_status = Unused

----------------------------------------------------------------------------
(* Python str operations *)

Min(a, b) == IF a < b THEN a ELSE b

\* s[i] for a 0-based index inside the string
CharAt(s, i) == SubSeq(s, i + 1, i + 1)

\* s[a:b], the slice of 0-based positions a .. b-1, clipped to the string
Slice(s, a, b) == SubSeq(s, Min(a, Len(s)) + 1, Min(b, Len(s)))

\* s[a:]
SliceFrom(s, a) == Slice(s, a, Len(s))

\* s.startswith(p)
startswith(s, p) == Len(p) <= Len(s) /\ SubSeq(s, 1, Len(p)) = p

\* s.endswith(p)
endswith(s, p) ==
    Len(p) <= Len(s) /\ SubSeq(s, Len(s) - Len(p) + 1, Len(s)) = p

\* the 0-based offsets at which sep occurs in s
Occurrences(s, sep) ==
    LET n == Len(sep)
    IN  {i \in 0..(Len(s) - n) : SubSeq(s, i + 1, i + n) = sep}

\* s.rpartition(sep)[0]: the text before the last occurrence of sep, and the
\* empty string when sep does not occur
rpartition_head(s, sep) ==
    LET occ == Occurrences(s, sep)
    IN  IF occ = {} THEN ""
        ELSE Slice(s, 0, CHOOSE i \in occ : \A j \in occ : j <= i)

\* s.split(sep) for a one-character sep: the sequence of the pieces
split(s, sep) ==
    LET occ == Occurrences(s, sep)
        ends == occ \cup {Len(s)}
        \* the k-th piece runs from after the (k-1)-th separator to the k-th
        RECURSIVE pieces(_)
        pieces(from) ==
            LET to == CHOOSE e \in ends :
                          e >= from /\ \A d \in ends : d >= from => e <= d
            IN  IF to = Len(s) THEN <<Slice(s, from, to)>>
                ELSE <<Slice(s, from, to)>> \o pieces(to + 1)
    IN  pieces(0)

LowerCase == {"a", "b", "c", "d", "e", "f", "g", "h", "i", "j", "k", "l", "m",
              "n", "o", "p", "q", "r", "s", "t", "u", "v", "w", "x", "y", "z"}

Digits == {"0", "1", "2", "3", "4", "5", "6", "7", "8", "9"}

\* the value of one decimal digit
DigitValue(c) ==
    CASE c = "0" -> 0 [] c = "1" -> 1 [] c = "2" -> 2 [] c = "3" -> 3
      [] c = "4" -> 4 [] c = "5" -> 5 [] c = "6" -> 6 [] c = "7" -> 7
      [] c = "8" -> 8 [] c = "9" -> 9

----------------------------------------------------------------------------
(* _get_frequency *)

\* re.search(r'[a-z\d]+', s): the first maximal run of lower-case letters and
\* digits, as the 0-based [from, to) offsets, or None when there is no match
re_search_lower_digits(s) ==
    LET in_class(i) == CharAt(s, i) \in LowerCase \cup Digits
        starts == {i \in 0..(Len(s) - 1) : in_class(i)}
    IN  IF starts = {} THEN None
        ELSE LET from == CHOOSE i \in starts : \A j \in starts : i <= j
                 stops == {k \in (from + 1)..Len(s) :
                              k = Len(s) \/ ~in_class(k)}
                 to == CHOOSE k \in stops : \A j \in stops : k <= j
             IN  [from |-> from, to |-> to]

\* a plausible slip: the 'Prim' prefix is not removed
get_frequency_keeps_prim(table) ==
    LET components == re_search_lower_digits(table)
    IN  IF components # None
        THEN Return(Slice(table, components.from, components.to))
        ELSE Raise("ValueError", "Unable to calculate frequency from table name")

_get_frequency(table) ==
    LET fixed_primavera == IF startswith(table, "Prim")
                           THEN SliceFrom(table, 4)
                           ELSE table
        components == re_search_lower_digits(fixed_primavera)
    IN  IF components # None
        THEN Return(Slice(fixed_primavera, components.from, components.to))
        ELSE Raise("ValueError", "Unable to calculate frequency from table name")

----------------------------------------------------------------------------
(* _make_partial_date_time *)

\* int(s) for the strings a filename can hold: an optional sign and one or
\* more decimal digits give the number, anything else raises ValueError
RECURSIVE digits_value(_)
digits_value(s) ==
    IF s = "" THEN 0
    ELSE 10 * digits_value(SubSeq(s, 1, Len(s) - 1)) + DigitValue(CharAt(s, Len(s) - 1))

int(s) ==
    LET signed == Len(s) > 0 /\ CharAt(s, 0) \in {"+", "-"}
        body == IF signed THEN SliceFrom(s, 1) ELSE s
        n == digits_value(body)
    IN  IF body # "" /\ \A i \in 0..(Len(body) - 1) : CharAt(body, i) \in Digits
        THEN Return(IF signed /\ CharAt(s, 0) = "-" THEN 0 - n ELSE n)
        ELSE Raise("ValueError", "invalid literal for int()")

\* a plausible slip: the day is read from the slice of the month
DateSlicesDayOfMonth ==
    [year |-> <<0, 4>>, month |-> <<4, 6>>, day |-> <<4, 6>>,
     hour |-> <<8, 10>>, minute |-> <<10, 12>>, second |-> <<12, 14>>]

\* the slices of the date string that _make_partial_date_time converts
DateSlices ==
    [year |-> <<0, 4>>, month |-> <<4, 6>>, day |-> <<6, 8>>,
     hour |-> <<8, 10>>, minute |-> <<10, 12>>, second |-> <<12, 14>>]

\* the fields of the PartialDateTime built for a frequency; the empty set for
\* an unsupported frequency
PopulatedFields(freq) ==
    CASE freq \in {"yr", "dec"} -> {"year"}
      [] freq = "mon" -> {"year", "month"}
      [] freq = "day" -> {"year", "month", "day"}
      [] freq \in {"6hr", "3hr", "1hr", "hr"} ->
             {"year", "month", "day", "hour", "minute"}
      [] freq = "subhr" ->
             {"year", "month", "day", "hour", "minute", "second"}
      [] OTHER -> {}

\* PartialDateTime(**fields): a record of the populated fields alone
PartialDateTime(date_string, fields) ==
    [f \in fields |->
        int(Slice(date_string, DateSlices[f][1], DateSlices[f][2])).value]

_make_partial_date_time(date_string, freq) ==
    LET fields == PopulatedFields(freq)
    IN  IF fields = {} THEN Raise("ValueError", "Unsupported frequency string")
        ELSE IF \E f \in fields : ~Returned(
                   int(Slice(date_string, DateSlices[f][1], DateSlices[f][2])))
        THEN Raise("ValueError", "invalid literal for int()")
        ELSE Return(PartialDateTime(date_string, fields))

----------------------------------------------------------------------------
(* identify_filename_metadata *)

FREQUENCY_VALUES == <<"ann", "mon", "day", "6hr", "3hr", "1hr", "subhr", "fx">>

UpperLetters == "ABCDEFGHIJKLMNOPQRSTUVWXYZ"

LowerLetters == "abcdefghijklmnopqrstuvwxyz"

\* the lower-case letter of each upper-case letter
LowerOf ==
    [c \in {SubSeq(UpperLetters, i, i) : i \in 1..Len(UpperLetters)} |->
        LET i == CHOOSE k \in 1..Len(UpperLetters) : SubSeq(UpperLetters, k, k) = c
        IN  SubSeq(LowerLetters, i, i)]

\* s.lower()
lower(s) ==
    LET RECURSIVE lowered(_)
        lowered(n) ==
            IF n = 0 THEN ""
            ELSE LET c == SubSeq(s, n, n)
                 IN  lowered(n - 1) \o (IF c \in DOMAIN LowerOf THEN LowerOf[c] ELSE c)
    IN  lowered(Len(s))

\* os.path.basename(filename)
basename_of(name) ==
    LET occ == Occurrences(name, "/")
    IN  IF occ = {} THEN name
        ELSE SliceFrom(name, (CHOOSE i \in occ : \A j \in occ : j <= i) + 1)

\* a plausible slip: the CMIP6 schema with the model before the table
components_model_first(format) ==
    CASE format = "CMIP5" ->
             <<"cmor_name", "table", "climate_model", "experiment",
               "rip_code", "date_string">>
      [] format = "CMIP6" ->
             <<"cmor_name", "climate_model", "table", "experiment",
               "rip_code", "grid", "date_string">>
      [] OTHER -> <<>>

\* the schema's field names; the empty sequence for an unknown format
components(format) ==
    CASE format = "CMIP5" ->
             <<"cmor_name", "table", "climate_model", "experiment",
               "rip_code", "date_string">>
      [] format = "CMIP6" ->
             <<"cmor_name", "table", "climate_model", "experiment",
               "rip_code", "grid", "date_string">>
      [] OTHER -> <<>>

\* the basename split into sections
filename_sects(basename) ==
    IF endswith(basename, "-clim.nc")
    THEN split(rpartition_head(basename, "-clim.nc"), "_")
    ELSE split(rpartition_head(basename, ".nc"), "_")

\* a plausible slip: 'present' and 'day' are left apart
join_present_day_never(sects) ==
    IF Len(sects) < 4 \/ (sects[4] = "present" /\ Len(sects) < 5)
    THEN Raise("IndexError", "list index out of range")
    ELSE Return(sects)

\* the sections with 'present', 'day' joined back together; IndexError when
\* the list is too short for the two lookups
join_present_day(sects) ==
    IF Len(sects) < 4 THEN Raise("IndexError", "list index out of range")
    ELSE IF sects[4] # "present" THEN Return(sects)
    ELSE IF Len(sects) < 5 THEN Raise("IndexError", "list index out of range")
    ELSE IF sects[5] # "day" THEN Return(sects)
    ELSE Return(SubSeq(sects, 1, 3) \o <<"present_day">>
                \o SubSeq(sects, 6, Len(sects)))

\* a plausible slip: the parts of the date range after the second are dropped
deduce_first_two_dates(cmpts, sects, name) ==
    LET n == Min(Len(cmpts), Len(sects))
        plain == {i \in 1..n : cmpts[i] # "date_string"}
        dated == {i \in 1..n : cmpts[i] = "date_string"}
        fields == [k \in {cmpts[i] : i \in plain} |->
                      sects[CHOOSE i \in plain : cmpts[i] = k]]
    IN  IF dated = {} THEN Return(fields)
        ELSE LET cmpt == sects[CHOOSE i \in dated : TRUE]
                 freq == _get_frequency(fields["table"])
                 dates == split(cmpt, "-")
             IN  IF ~Returned(freq) \/ Len(dates) < 2
                 THEN Raise("FileValidationError", "Unknown filename format")
                 ELSE LET start_date == _make_partial_date_time(dates[1], freq.value)
                          end_date == _make_partial_date_time(dates[2], freq.value)
                      IN  IF ~Returned(start_date) \/ ~Returned(end_date)
                          THEN Raise("FileValidationError",
                                     "Unknown date format in filename")
                          ELSE Return(fields @@
                                      [start_date |-> start_date.value,
                                       end_date |-> end_date.value])

\* the loop over zip(components, filename_sects): the metadata deduced from
\* the filename, or the FileValidationError that the loop raises
deduce(cmpts, sects, name) ==
    LET n == Min(Len(cmpts), Len(sects))
        plain == {i \in 1..n : cmpts[i] # "date_string"}
        dated == {i \in 1..n : cmpts[i] = "date_string"}
        fields == [k \in {cmpts[i] : i \in plain} |->
                      sects[CHOOSE i \in plain : cmpts[i] = k]]
    IN  IF dated = {} THEN Return(fields)
        ELSE LET cmpt == sects[CHOOSE i \in dated : TRUE]
                 freq == _get_frequency(fields["table"])
                 dates == split(cmpt, "-")
             IN  IF ~Returned(freq) \/ Len(dates) # 2
                 THEN Raise("FileValidationError", "Unknown filename format")
                 ELSE LET start_date == _make_partial_date_time(dates[1], freq.value)
                          end_date == _make_partial_date_time(dates[2], freq.value)
                      IN  IF ~Returned(start_date) \/ ~Returned(end_date)
                          THEN Raise("FileValidationError",
                                     "Unknown date format in filename")
                          ELSE Return(fields @@
                                      [start_date |-> start_date.value,
                                       end_date |-> end_date.value])

\* a plausible slip: a filename without a date range is refused
with_missing_values_refused(deduced) ==
    IF "start_date" \in DOMAIN deduced.value THEN deduced
    ELSE Raise("FileValidationError", "Unknown filename format")

\* fixed variables have no time range: blank values are created
with_missing_values(deduced) ==
    Return(deduced.value @@ [start_date |-> None, end_date |-> None])

\* a plausible slip: a later match replaces an earlier one
frequency_of_table_last(table) ==
    LET hits == {i \in 1..Len(FREQUENCY_VALUES) :
                    Occurrences(lower(table), FREQUENCY_VALUES[i]) # {}}
    IN  IF hits = {} THEN ""
        ELSE FREQUENCY_VALUES[CHOOSE i \in hits : \A j \in hits : j <= i]

\* the first of FREQUENCY_VALUES held by the lower-cased table name, or ''
frequency_of_table(table) ==
    LET hits == {i \in 1..Len(FREQUENCY_VALUES) :
                    Occurrences(lower(table), FREQUENCY_VALUES[i]) # {}}
    IN  IF hits = {} THEN ""
        ELSE FREQUENCY_VALUES[CHOOSE i \in hits : \A j \in hits : i <= j]

\* the metadata keys 'directory' and 'filesize' come from the file system and
\* no check reads them: they are left out of the record
identify_filename_metadata(name, format) ==
    IF components(format) = <<>>
    THEN Raise("NotImplementedError", "file_format must be CMIP5 or CMIP6")
    ELSE LET basename == basename_of(name)
             sects == join_present_day(filename_sects(basename))
         IN  IF ~Returned(sects) THEN sects
             ELSE LET deduced == deduce(components(format), sects.value, name)
                  IN  IF ~Returned(deduced) THEN deduced
                      ELSE LET filled == with_missing_values(deduced)
                           IN  IF ~Returned(filled) THEN filled
                               ELSE Return(
                                   [basename |-> basename] @@ filled.value @@
                                   [frequency |->
                                       frequency_of_table(filled.value["table"])])

----------------------------------------------------------------------------
(* datetime, timedelta and the time units of a coordinate *)

\* the time values of a coordinate are counted in ticks of a second
TicksPerSecond == 2

MicrosPerTick == 1000000 \div TicksPerSecond

is_leap(year) ==
    year % 4 = 0 /\ (year % 100 # 0 \/ year % 400 = 0)

days_in_month(year, month) ==
    CASE month \in {4, 6, 9, 11} -> 30
      [] month = 2 -> IF is_leap(year) THEN 29 ELSE 28
      [] OTHER -> 31

\* the date that is `days` days after (before, when negative) a date
RECURSIVE shift_days(_, _)
shift_days(date, days) ==
    IF days = 0 THEN date
    ELSE IF days > 0
    THEN shift_days(
             IF date.day < days_in_month(date.year, date.month)
             THEN [date EXCEPT !.day = @ + 1]
             ELSE IF date.month < 12
             THEN [date EXCEPT !.month = @ + 1, !.day = 1]
             ELSE [year |-> date.year + 1, month |-> 1, day |-> 1],
             days - 1)
    ELSE shift_days(
             IF date.day > 1 THEN [date EXCEPT !.day = @ - 1]
             ELSE IF date.month > 1
             THEN [date EXCEPT !.month = @ - 1,
                               !.day = days_in_month(date.year, date.month - 1)]
             ELSE [year |-> date.year - 1, month |-> 12, day |-> 31],
             days + 1)

\* dt + datetime.timedelta(0, seconds, microseconds)
add_timedelta(dt, seconds, microseconds) ==
    LET micros == dt.microsecond + microseconds
        secs == dt.hour * 3600 + dt.minute * 60 + dt.second + seconds
                    + (micros \div 1000000)
        date == shift_days([year |-> dt.year, month |-> dt.month, day |-> dt.day],
                           secs \div 86400)
        of_day == secs % 86400
    IN  [year |-> date.year, month |-> date.month, day |-> date.day,
         hour |-> of_day \div 3600, minute |-> (of_day % 3600) \div 60,
         second |-> of_day % 60, microsecond |-> micros % 1000000]

\* time.units.num2date(value): the origin of the units plus value ticks
num2date(units, value) ==
    add_timedelta(units.origin, value \div TicksPerSecond,
                  (value % TicksPerSecond) * MicrosPerTick)

----------------------------------------------------------------------------
(* _round_time and _check_start_end_times *)

\* PartialDateTime.__ne__(datetime): some populated field differs.  None is
\* no PartialDateTime and differs from every datetime.
differs(file_date, data_date) ==
    IF file_date = None THEN TRUE
    ELSE \E f \in DOMAIN file_date : file_date[f] # data_date[f]

\* a plausible slip: the seconds are cut off instead of rounded
round_time_down(dt, round_to) ==
    LET seconds == dt.hour * 3600 + dt.minute * 60 + dt.second
        rounding == (seconds \div round_to) * round_to
    IN  add_timedelta(dt, rounding - seconds, 0 - dt.microsecond)

\* (seconds + round_to / 2) // round_to * round_to with true division
_round_time(dt, round_to) ==
    LET seconds == dt.hour * 3600 + dt.minute * 60 + dt.second
        rounding == ((2 * seconds + round_to) \div (2 * round_to)) * round_to
    IN  add_timedelta(dt, rounding - seconds, 0 - dt.microsecond)

\* cube.coord('time') finds a coordinate: a cube is a record that has the
\* field time when the file has a time coordinate
has_time(a_cube) == "time" \in DOMAIN a_cube

\* time_coord.has_bounds(), time.bounds is not None: a coordinate is a record
\* that has the field bounds when the coordinate has bounds
has_bounds(time_coord) == "bounds" \in DOMAIN time_coord

\* a plausible slip: the time points are read for a climatology too
time_ends_from_points(a_cube, a_metadata) ==
    IF ~has_time(a_cube)
    THEN Raise("CoordinateNotFoundError", "Expected to find exactly 1 time coordinate")
    ELSE LET time == a_cube.time
         IN  Return([data_start |-> num2date(time.units, time.points[1]),
                     data_end |-> num2date(time.units, time.points[Len(time.points)])])

\* the first and the last time of the data: from the bounds for a
\* climatology, from the points otherwise
time_ends(a_cube, a_metadata) ==
    IF ~has_time(a_cube)
    THEN Raise("CoordinateNotFoundError", "Expected to find exactly 1 time coordinate")
    ELSE LET time == a_cube.time
         IN  IF endswith(a_metadata.basename, "-clim.nc")
             THEN IF ~has_bounds(time)
                  THEN Raise("TypeError", "'NoneType' object is not subscriptable")
                  ELSE Return(
                      [data_start |-> num2date(time.units, time.bounds[1][1]),
                       data_end |-> num2date(time.units,
                                             time.bounds[Len(time.bounds)][2])])
             ELSE Return(
                      [data_start |-> num2date(time.units, time.points[1]),
                       data_end |-> num2date(time.units, time.points[Len(time.points)])])

\* a plausible slip: the point frequencies are left out of the list
rounded_frequencies_without_points == {"6hr", "3hr", "1hr"}

\* the frequencies whose times are rounded
rounded_frequencies == {"6hr", "3hr", "1hr", "6hrPt", "3hrPt", "1hrPt"}

\* the two times after the rounding policy
rounded_ends(ends, a_metadata) ==
    IF a_metadata.frequency \in rounded_frequencies
    THEN [data_start |-> _round_time(ends.data_start, 60),
          data_end |-> _round_time(ends.data_end, 60)]
    ELSE ends

\* a plausible slip: the end date is compared first
compare_end_first(a_metadata, start, end) ==
    IF differs(a_metadata.end_date, end)
    THEN Raise("FileValidationError",
               "End date in filename does not match the last time in the file")
    ELSE IF differs(a_metadata.start_date, start)
    THEN Raise("FileValidationError",
               "Start date in filename does not match the first time in the file")
    ELSE Return(TRUE)

\* the comparison of the dates of the filename with the times of the data
compare_dates(a_metadata, start, end) ==
    IF differs(a_metadata.start_date, start)
    THEN Raise("FileValidationError",
               "Start date in filename does not match the first time in the file")
    ELSE IF differs(a_metadata.end_date, end)
    THEN Raise("FileValidationError",
               "End date in filename does not match the last time in the file")
    ELSE Return(TRUE)

\* the outcome of _check_start_end_times and its locals data_start, data_end
\* (Unused when the function raised before it set them)
_check_start_end_times(a_cube, a_metadata) ==
    LET ends == time_ends(a_cube, a_metadata)
    IN  IF ~Returned(ends)
        THEN [outcome |-> ends, data_start |-> Unused, data_end |-> Unused]
        ELSE LET data == rounded_ends(ends.value, a_metadata)
             IN  [outcome |-> compare_dates(a_metadata, data.data_start,
                                            data.data_end),
                  data_start |-> data.data_start, data_end |-> data.data_end]

----------------------------------------------------------------------------
(* _check_contiguity *)

\* time_coord.is_contiguous(): the upper edge of every bounds pair is the
\* lower edge of the next (iris compares within its default tolerance, which
\* is below one tick for the time values of the model)
is_contiguous(bounds) ==
    \A i \in 1..(Len(bounds) - 1) : bounds[i + 1][1] = bounds[i][2]

\* a plausible slip: the cell methods are not looked at
is_point_sampled_never(cell_methods) == FALSE

\* some cell method of the cube has the method 'point'
is_point_sampled(cell_methods) ==
    \E i \in 1..Len(cell_methods) : cell_methods[i].method = "point"

_check_contiguity(a_cube, a_metadata) ==
    IF ~has_time(a_cube)
    THEN Raise("CoordinateNotFoundError", "Expected to find exactly 1 time coordinate")
    ELSE IF is_point_sampled(a_cube.cell_methods) THEN Return(TRUE)
    ELSE IF has_bounds(a_cube.time)
    THEN IF ~is_contiguous(a_cube.time.bounds)
         THEN Raise("FileValidationError",
                    "The points in the time dimension in the file are not contiguous")
         ELSE Return(TRUE)
    ELSE Return(TRUE)

----------------------------------------------------------------------------
(* _check_data_point and _check_cell_measure_point *)

\* random.random() is a float of [0, 1): the draw k of 0..RandomResolution - 1
\* stands for k / RandomResolution
RandomResolution == 4

\* a plausible slip: the index is scaled to 0..dim_length
random_index_to_length(draw, dim_length) ==
    (draw * (dim_length + 1)) \div RandomResolution

\* int(random.random() * dim_length)
random_index(draw, dim_length) == (draw * dim_length) \div RandomResolution

\* random.randint(0, dim_length - 1): a whole number of 0..dim_length - 1,
\* picked by the draw
randint_to(draw, dim_length) == (draw * dim_length) \div RandomResolution

\* data[index] for a tuple of one index per dimension (numpy counts a negative
\* index from the end).  The data is a record of its shape and of the indices
\* whose element cannot be read from the file.
read_element(data, index) ==
    IF \E i \in 1..Len(index) :
           index[i] >= data.shape[i] \/ index[i] < 0 - data.shape[i]
    THEN Raise("IndexError", "index out of bounds")
    ELSE IF index \in data.unreadable
    THEN Raise("RuntimeError", "NetCDF: HDF error")
    ELSE Return(index)

\* the message of a data point that could not be read
no_data_point(index, a_metadata) ==
    [text |-> "Unable to extract data point {} from file: {}",
     point_index |-> index, basename |-> a_metadata.basename]

\* the outcome of _check_data_point and its local point_index
_check_data_point(a_cube, a_metadata, some_draws) ==
    LET shape == a_cube.data.shape
        index == [i \in 1..Len(shape) |-> random_index(some_draws[i], shape[i])]
    IN  [point_index |-> index,
         outcome |-> IF ~Returned(read_element(a_cube.data, index))
                     THEN Raise("FileValidationError",
                                no_data_point(index, a_metadata))
                     ELSE Return(TRUE)]

\* the outcome of _check_cell_measure_point and its local point_index (Unused
\* when the function raised before it set it).  cfreader.cf_group.values() is
\* the sequence of the file's variables.
_check_cell_measure_point(a_cfreader, a_metadata, some_draws) ==
    LET group == a_cfreader.cf_group
        named == {i \in 1..Len(group) : group[i].cf_name = a_metadata.cmor_name}
    IN  IF named = {}
        THEN [point_index |-> Unused,
              outcome |-> Raise("FileValidationError",
                  "Unable to find cell measure in cfreader for variable "
                      \o a_metadata.cmor_name)]
        ELSE LET cell_measure == group[CHOOSE i \in named : \A j \in named : i <= j]
                 shape == cell_measure.cf_data.shape
                 index == [i \in 1..Len(shape) |->
                              randint_to(some_draws[i], shape[i])]
             IN  IF \E i \in 1..Len(shape) : shape[i] < 1
                 THEN [point_index |-> Unused,
                       outcome |-> Raise("ValueError",
                                         "empty range for randrange()")]
                 ELSE [point_index |-> index,
                       outcome |->
                           IF ~Returned(read_element(cell_measure.cf_data, index))
                           THEN Raise("FileValidationError",
                                      no_data_point(index, a_metadata))
                           ELSE Return(TRUE)]

----------------------------------------------------------------------------
(* identify_contents_metadata and identify_cell_measures_metadata *)

\* the message of metadata that could not be extracted
no_contents_metadata(name, exc_str) ==
    "Unable to extract metadata from the contents of file " \o name \o "\n"
        \o exc_str

\* a plausible slip: the CMIP5 attribute is looked up first
institute_cmip5_first(attributes) ==
    IF "institute_id" \in DOMAIN attributes
    THEN Return(attributes["institute_id"])
    ELSE IF "institution_id" \in DOMAIN attributes
    THEN Return(attributes["institution_id"])
    ELSE Raise("KeyError", "'institute_id'")

\* attributes['institution_id'], or attributes['institute_id'] on KeyError
institute_of(attributes) ==
    IF "institution_id" \in DOMAIN attributes
    THEN Return(attributes["institution_id"])
    ELSE IF "institute_id" \in DOMAIN attributes
    THEN Return(attributes["institute_id"])
    ELSE Raise("KeyError", "'institute_id'")

\* attributes.get('activity_id', 'HighResMIP')
activity_id_of(attributes) ==
    IF "activity_id" \in DOMAIN attributes THEN attributes["activity_id"]
    ELSE "HighResMIP"

identify_contents_metadata(a_cube, name) ==
    IF ~has_time(a_cube)
    THEN Raise("FileValidationError", no_contents_metadata(name,
                   "Expected to find exactly 1 time coordinate, but found none."))
    ELSE LET institute == institute_of(a_cube.attributes)
         IN  IF ~Returned(institute)
             THEN Raise("FileValidationError",
                        no_contents_metadata(name, institute.msg))
             ELSE Return([var_name |-> a_cube.var_name,
                          units |-> a_cube.units,
                          long_name |-> a_cube.long_name,
                          standard_name |-> a_cube.standard_name,
                          time_units |-> a_cube.time.units.origin,
                          calendar |-> a_cube.time.units.calendar,
                          activity_id |-> activity_id_of(a_cube.attributes),
                          institute |-> institute.value])

\* cfreader.cf_group[cmor_name].getncattr(attr) for the three attributes that
\* the function reads: KeyError without the variable, AttributeError without
\* one of the attributes
cell_measure_attrs(a_cfreader, cmor_name) ==
    LET group == a_cfreader.cf_group
        named == {i \in 1..Len(group) : group[i].cf_name = cmor_name}
    IN  IF named = {} THEN Raise("KeyError", "'" \o cmor_name \o "'")
        ELSE LET attrs == group[CHOOSE i \in named : TRUE].ncattrs
             IN  IF \E a \in {"units", "long_name", "standard_name"} :
                        a \notin DOMAIN attrs
                 THEN Raise("AttributeError", "NetCDF: Attribute not found")
                 ELSE Return(attrs)

identify_cell_measures_metadata(a_cfreader, name) ==
    LET cmor_name == split(basename_of(name), "_")[1]
        attrs == cell_measure_attrs(a_cfreader, cmor_name)
        institute == institute_of(a_cfreader.global_attributes)
    IN  IF ~Returned(attrs)
        THEN Raise("FileValidationError", no_contents_metadata(name, attrs.msg))
        ELSE IF ~Returned(institute)
        THEN Raise("FileValidationError",
                   no_contents_metadata(name, institute.msg))
        ELSE Return([var_name |-> cmor_name,
                     units |-> attrs.value["units"],
                     long_name |-> attrs.value["long_name"],
                     standard_name |-> attrs.value["standard_name"],
                     time_units |-> None,
                     calendar |-> None,
                     activity_id |-> activity_id_of(a_cfreader.global_attributes),
                     institute |-> institute.value])

----------------------------------------------------------------------------
(* list_files *)

\* A directory is a record of its path and of its entries, in the order in
\* which os.listdir gives them; an entry is a record of its name, of whether
\* os.path.isdir holds of it and, for a directory, of its own entries.
RECURSIVE list_files(_, _)
list_files(a_directory, a_suffix) ==
    LET dir_files == a_directory.entries
        RECURSIVE from(_)
        from(k) ==
            IF k > Len(dir_files) THEN <<>>
            ELSE LET file_path == a_directory.path \o "/" \o dir_files[k].name
                 IN  (IF dir_files[k].isdir
                      THEN list_files([path |-> file_path,
                                       entries |-> dir_files[k].entries], ".nc")
                      ELSE IF endswith(file_path, a_suffix) THEN <<file_path>>
                      ELSE <<>>) \o from(k + 1)
    IN  from(1)

----------------------------------------------------------------------------
(* Inputs of the frequency resolver *)

\* the table names of the repository's test of _get_frequency
MipTables ==
    {"3hr", "6hrLev", "6hrPlev", "6hrPlevPt", "AERday", "AERfx", "AERhr",
     "AERmon", "AERmonZ", "Amon", "CF3hr", "CFday", "CFmon", "CFsubhr",
     "CFsubhrOff", "E1hr", "E1hrClimMon", "E3hr", "E3hrPt", "E6hrZ", "Eday",
     "EdayZ", "Efx", "Emon", "EmonZ", "Esubhr", "Eyr", "IfxAnt", "IfxGre",
     "ImonAnt", "ImonGre", "IyrAnt", "IyrGre", "LImon", "Lmon", "Oclim",
     "Oday", "Odec", "Ofx", "Omon", "Oyr", "aero", "cfOff", "cfSites",
     "Prim1hr", "Prim3hr", "Prim3hrPt", "Prim6hr", "Prim6hrPt", "Primday",
     "Primmon", "PrimO6hr", "PrimOday", "PrimOmon", "PrimSIday", "PrimmonZ",
     "PrimdayPt", "SIday", "SImon", "day", "fx", "grids"}

\* the longest table name built from TableAlphabet
MaxTableLen == 5

TableAlphabet == {"P", "r", "i", "m", "A", "1"}

RECURSIVE StringsUpTo(_, _)
StringsUpTo(alphabet, n) ==
    IF n = 0 THEN {""}
    ELSE LET shorter == StringsUpTo(alphabet, n - 1)
         IN  shorter \cup {s \o c : s \in shorter, c \in alphabet}

TableNames == MipTables \cup StringsUpTo(TableAlphabet, MaxTableLen)

----------------------------------------------------------------------------
(* The frequency resolver alone: one call of _get_frequency *)

InitFrequency ==
    /\ pc = "call"
    /\ table_name \in TableNames
    /\ frequency = Unused
    /\ filename = Unused /\ file_format = Unused /\ decoded = Unused
    /\ metadata = Unused /\ cube = Unused /\ checked = Unused
    /\ data_start = Unused /\ data_end = Unused
    /\ OneFunctionOnly

GetFrequency ==
    /\ pc = "call"
    /\ frequency' = _get_frequency(table_name)
    /\ pc' = "done"
    /\ UNCHANGED <<table_name, filename, file_format, decoded, metadata,
                   cube, data_start, data_end, checked>>
    /\ UNCHANGED <<point_vars, listing_vars, main_vars>>

NextFrequency == GetFrequency

SpecFrequency == InitFrequency /\ [][NextFrequency]_vars

----------------------------------------------------------------------------
(* C2 *)

\* the table name without a leading 'Prim'
Remainder(table) ==
    IF Len(table) >= 4 /\ SubSeq(table, 1, 4) = "Prim"
    THEN SubSeq(table, 5, Len(table))
    ELSE table

InFrequencyClass(c) == c \in LowerCase \cup Digits

\* run is the first maximal run of lower-case letters and digits of s
IsFirstMaximalRun(run, s) ==
    \E i \in 1..Len(s) : \E j \in i..Len(s) :
        /\ run = SubSeq(s, i, j)
        /\ \A k \in i..j : InFrequencyClass(SubSeq(s, k, k))
        /\ \A k \in 1..(i - 1) : ~InFrequencyClass(SubSeq(s, k, k))
        /\ j = Len(s) \/ ~InFrequencyClass(SubSeq(s, j + 1, j + 1))

\* C2: _get_frequency returns the first maximal run of lower-case letters and
\* digits of the table name without its leading 'Prim' ('Primday', 'PrimOday',
\* 'PrimSIday' and 'day' give 'day', 'E1hrClimMon' gives '1hr'), and raises
\* ValueError exactly when that remainder has no lower-case letter or digit.
C2_FrequencyIsFirstRun ==
    pc = "done" =>
        LET rem == Remainder(table_name)
            empty == \A k \in 1..Len(rem) : ~InFrequencyClass(SubSeq(rem, k, k))
        IN  /\ Raised(frequency, "ValueError") <=> empty
            /\ ~empty => /\ Returned(frequency)
                         /\ IsFirstMaximalRun(frequency.value, rem)
            /\ table_name \in {"Primday", "PrimOday", "PrimSIday", "day"}
                   => frequency = Return("day")
            /\ table_name = "E1hrClimMon" => frequency = Return("1hr")

\* a prefixed table has been resolved, and a table has been refused
C2_Witness ==
    /\ pc = "done"
    /\ \/ table_name = "PrimSIday" /\ frequency = Return("day")
       \/ table_name = "PrimA" /\ Raised(frequency, "ValueError")

----------------------------------------------------------------------------
(* Inputs of the filename decoder *)

\* the longest date string of a date range
MaxDateLen == 15

\* the most sections of a filename built section by section
MaxSections == 8

StartDigits == "18591201063045123"

EndDigits == "18841130235959987"

\* the halves of a date range: the leading digits of two dates, cut at
\* every length, and strings that are not decimal
StartStrings ==
    {SubSeq(StartDigits, 1, n) : n \in 0..MaxDateLen} \cup {"18x912", "+85912"}

EndStrings ==
    {SubSeq(EndDigits, 1, n) : n \in 0..MaxDateLen} \cup {"1884y1"}

\* the date ranges: every start with the end of its length, with an end of 6
\* and one of 14 digits and with one that is not decimal, every end with a
\* start of 14 digits, and two ranges of the years 7 to 10
DateRanges ==
    UNION {{start \o "-" \o end :
                end \in {SubSeq(EndDigits, 1, Len(start)), SubSeq(EndDigits, 1, 6),
                         SubSeq(EndDigits, 1, 14), "1884y1"}} :
           start \in StartStrings}
    \cup {SubSeq(StartDigits, 1, 14) \o "-" \o end : end \in EndStrings}
    \cup {"00070809-00100203", "0007-0010"}

\* tables of every frequency that _make_partial_date_time knows, and of some
\* that it does not
DatedTables ==
    {"Amon", "day", "Eyr", "Odec", "6hrPlev", "Prim3hrPt", "E1hrClimMon",
     "AERhr", "CFsubhr", "Ofx", "Oclim"}

\* well-formed names but for the date range, with and without a grid
DatedNames ==
    {"clt_" \o table \o "_Monty_historical_r1i1p1_" \o grid \o range \o ".nc" :
        table \in DatedTables, grid \in {"", "gn_"}, range \in DateRanges}

\* what the i-th section of a name built section by section can be
SectionChoices(i) ==
    CASE i = 1 -> {"clt"}
      [] i = 2 -> {"Amon", "A"}
      [] i = 3 -> {"Monty"}
      [] i = 4 -> {"historical", "present"}
      [] i = 5 -> {"r1i1p1", "day"}
      [] i = 6 -> {"gn", "r2i1p1", "185912-188411"}
      [] i = 7 -> {"gn", "185912-188411", "1859-12-01", "185912"}
      [] i = 8 -> {"185912-188411", "x"}
      [] OTHER -> {"x"}

RECURSIVE Stems(_)
Stems(n) ==
    IF n = 1 THEN SectionChoices(1)
    ELSE {stem \o "_" \o sect : stem \in Stems(n - 1), sect \in SectionChoices(n)}

\* names of one to MaxSections sections, with each suffix and with none
SectionedNames ==
    {stem \o ending :
        stem \in UNION {Stems(n) : n \in 1..MaxSections},
        ending \in {".nc", "-clim.nc", ""}}

\* the filenames of the repository's tests of identify_filename_metadata,
\* and two of them in a directory
TestNames ==
    {"clt_Amon_Monty_historical_r1i1p1_185912-188411.nc",
     "prc_day_HadGEM3_highres-future_r1i1p1f1_gn_19500101-19501230.nc",
     "phalf_Amon_HadGEM3-GC31-LM_highresSST-present_r1i1p1f1_gn_195001-195101-clim.nc",
     "clt_Amon_Monty_historical_r1i1p1_1859-1884.nc",
     "prc_day_highres-future_HadGEM3_r1i1p1f1_gn_1950-1950.nc",
     "/data/v1/clt_Amon_Monty_historical_r1i1p1_185912-188411.nc",
     "data/prc_day_HadGEM3_highres-future_r1i1p1f1_gn_19500101-19501230.nc"}

\* the calls of identify_filename_metadata: <<filename, file_format>>
FilenameCalls ==
    ((DatedNames \cup SectionedNames) \X {"CMIP5", "CMIP6"})
        \cup (TestNames \X {"CMIP5", "CMIP6", "CMIP7"})

----------------------------------------------------------------------------
(* The filename decoder alone: one call of identify_filename_metadata *)

InitFilename ==
    /\ pc = "call"
    /\ \E call \in FilenameCalls : filename = call[1] /\ file_format = call[2]
    /\ decoded = Unused
    /\ table_name = Unused /\ frequency = Unused
    /\ metadata = Unused /\ cube = Unused /\ checked = Unused
    /\ data_start = Unused /\ data_end = Unused
    /\ OneFunctionOnly

IdentifyFilenameMetadata ==
    /\ pc = "call"
    /\ decoded' = identify_filename_metadata(filename, file_format)
    /\ pc' = "done"
    /\ UNCHANGED <<table_name, frequency, filename, file_format, metadata,
                   cube, data_start, data_end, checked>>
    /\ UNCHANGED <<point_vars, listing_vars, main_vars>>

NextFilename == IdentifyFilenameMetadata

SpecFilename == InitFilename /\ [][NextFilename]_vars

----------------------------------------------------------------------------
(* Inputs of the checks of the time axis *)

\* the units of the time coordinate: ticks since the last minutes of 2014
TimeUnits ==
    [origin |-> [year |-> 2014, month |-> 12, day |-> 31, hour |-> 23,
                 minute |-> 58, second |-> 0, microsecond |-> 0]]

Seconds(n) == n * TicksPerSecond

\* first and last time points: on a minute, 34 seconds past it, and a tick
\* before and on the half minute
FirstPoints == {0, Seconds(34)}

LastPoints ==
    {Seconds(34), Seconds(60), Seconds(90) - 1, Seconds(90), Seconds(94)}

\* the time coordinates: two points, without bounds or with bounds half a
\* minute either side of each point
TimeCoords ==
    {[units |-> TimeUnits, points |-> <<first, last>>] :
        first \in FirstPoints, last \in LastPoints} \cup
    {[units |-> TimeUnits, points |-> <<first, last>>,
      bounds |-> <<<<first - Seconds(30), first + Seconds(30)>>,
                   <<last - Seconds(30), last + Seconds(30)>>>>] :
        first \in FirstPoints, last \in LastPoints}

\* the cubes handed to _check_start_end_times, one of them without a time
\* coordinate (a fixed field)
TimedCubes ==
    {[time |-> time, cell_methods |-> <<>>] : time \in TimeCoords}
        \cup {[cell_methods |-> <<>>]}

\* a PartialDateTime of the leading fields of a date
Truncated(date, fields) == [f \in fields |-> date[f]]

YearFields == {"year"}

MonthFields == {"year", "month"}

DayFields == {"year", "month", "day"}

MinuteFields == {"year", "month", "day", "hour", "minute"}

SecondFields == {"year", "month", "day", "hour", "minute", "second"}

\* the dates that a filename declares: None (no date range) and dates at and
\* around the times of the data, at each precision
StartDates ==
    {None, Truncated(num2date(TimeUnits, 0), MonthFields),
     Truncated(num2date(TimeUnits, 0), MinuteFields),
     Truncated(num2date(TimeUnits, Seconds(60)), MinuteFields)}

EndDates ==
    {None, Truncated(num2date(TimeUnits, 0), YearFields),
     Truncated(num2date(TimeUnits, Seconds(94)), SecondFields)}
    \cup {Truncated(num2date(TimeUnits, Seconds(60 * m)), fields) :
            m \in 0..2, fields \in {MonthFields, DayFields, MinuteFields}}

Frequencies ==
    {FREQUENCY_VALUES[i] : i \in 1..Len(FREQUENCY_VALUES)}
        \cup {"6hrPt", "3hrPt", "1hrPt", "dec", ""}

\* the metadata handed to _check_start_end_times, as the tests build it
TimedMetadata ==
    {[basename |-> basename, start_date |-> start_date, end_date |-> end_date,
      frequency |-> freq] :
        basename \in {"file.nc", "file-clim.nc"}, start_date \in StartDates,
        end_date \in EndDates, freq \in Frequencies}

----------------------------------------------------------------------------
(* The start and end time check alone: one call of _check_start_end_times *)

InitTimes ==
    /\ pc = "call"
    /\ metadata \in TimedMetadata
    /\ cube \in TimedCubes
    /\ checked = Unused /\ data_start = Unused /\ data_end = Unused
    /\ table_name = Unused /\ frequency = Unused
    /\ filename = Unused /\ file_format = Unused /\ decoded = Unused
    /\ OneFunctionOnly

CheckStartEndTimes ==
    /\ pc = "call"
    /\ LET call == _check_start_end_times(cube, metadata)
       IN  /\ checked' = call.outcome
           /\ data_start' = call.data_start
           /\ data_end' = call.data_end
    /\ pc' = "done"
    /\ UNCHANGED <<table_name, frequency, filename, file_format, decoded,
                   metadata, cube>>
    /\ UNCHANGED <<point_vars, listing_vars, main_vars>>

NextTimes == CheckStartEndTimes

SpecTimes == InitTimes /\ [][NextTimes]_vars

----------------------------------------------------------------------------
(* Inputs of the contiguity check *)

\* the most bounds pairs of a time coordinate
MaxBounds == 3

TimeValues == {0, 1, 2, 3}

\* the bounds pairs: a lower edge and an upper edge not below it
BoundsPairs == {pair \in TimeValues \X TimeValues : pair[1] <= pair[2]}

RECURSIVE BoundsUpTo(_)
BoundsUpTo(n) ==
    IF n = 0 THEN {<<>>}
    ELSE LET shorter == BoundsUpTo(n - 1)
         IN  shorter \cup {Append(b, pair) : b \in shorter, pair \in BoundsPairs}

\* the cell methods of a cube: none, a mean over time, a point in time, a
\* point on another coordinate, and two of them
CellMethods ==
    {<<>>,
     <<[method |-> "mean", coord_names |-> <<"time">>]>>,
     <<[method |-> "point", coord_names |-> <<"time">>]>>,
     <<[method |-> "point", coord_names |-> <<"latitude">>]>>,
     <<[method |-> "mean", coord_names |-> <<"time">>],
       [method |-> "point", coord_names |-> <<"latitude">>]>>,
     <<[method |-> "mean", coord_names |-> <<"latitude">>],
       [method |-> "point", coord_names |-> <<"time">>]>>}

\* the cubes handed to _check_contiguity: with bounds or without
BoundedCubes ==
    {[time |-> [units |-> TimeUnits,
                points |-> [i \in 1..Len(bounds) |-> bounds[i][1]],
                bounds |-> bounds],
      cell_methods |-> cell_methods] :
        bounds \in BoundsUpTo(MaxBounds) \ {<<>>}, cell_methods \in CellMethods}
    \cup
    {[time |-> [units |-> TimeUnits, points |-> points],
      cell_methods |-> cell_methods] :
        points \in {<<0>>, <<0, 2>>}, cell_methods \in CellMethods}

----------------------------------------------------------------------------
(* The contiguity check alone: one call of _check_contiguity *)

InitContiguity ==
    /\ pc = "call"
    /\ metadata = [basename |-> "file.nc"]
    /\ cube \in BoundedCubes
    /\ checked = Unused /\ data_start = Unused /\ data_end = Unused
    /\ table_name = Unused /\ frequency = Unused
    /\ filename = Unused /\ file_format = Unused /\ decoded = Unused
    /\ OneFunctionOnly

CheckContiguity ==
    /\ pc = "call"
    /\ checked' = _check_contiguity(cube, metadata)
    /\ pc' = "done"
    /\ UNCHANGED <<table_name, frequency, filename, file_format, decoded,
                   metadata, cube, data_start, data_end>>
    /\ UNCHANGED <<point_vars, listing_vars, main_vars>>

NextContiguity == CheckContiguity

SpecContiguity == InitContiguity /\ [][NextContiguity]_vars

----------------------------------------------------------------------------
(* Inputs of list_files, and one call of it *)

\* the most entries of one directory
MaxEntries == 2

\* the names of the files of a tree
ListedNames == {"a.nc", "b.txt", "c.nc.gz"}

File(name) == [name |-> name, isdir |-> FALSE, entries |-> <<>>]

Dir(name, entries) == [name |-> name, isdir |-> TRUE, entries |-> entries]

\* the sequences of at most n elements of a set
RECURSIVE SequencesUpTo(_, _)
SequencesUpTo(elements, n) ==
    IF n = 0 THEN {<<>>}
    ELSE LET shorter == SequencesUpTo(elements, n - 1)
         IN  shorter \cup {Append(q, e) : q \in shorter, e \in elements}

\* the sequences of at most n files of different names
FilesUpTo(names, n) ==
    {q \in SequencesUpTo({File(name) : name \in names}, n) :
        \A i, j \in 1..Len(q) : i # j => q[i] # q[j]}

\* the listings of a directory: at most MaxEntries entries, which are files
\* of different names among the given ones and at most one sub-directory
\* 'sub', at any place, with one of the given listings
Listings(names, sub_listings) ==
    FilesUpTo(names, MaxEntries) \cup
    UNION {{SubSeq(q, 1, k) \o <<Dir("sub", l)>> \o SubSeq(q, k + 1, Len(q)) :
                k \in 0..Len(q), l \in sub_listings} :
           q \in FilesUpTo(names, MaxEntries - 1)}

\* the trees: a directory, its sub-directories and theirs
Trees ==
    {[path |-> "d", entries |-> l] :
        l \in Listings(ListedNames, Listings(ListedNames, Listings(ListedNames, {})))}

Suffixes == {".nc", ".txt", ""}

InitListFiles ==
    /\ pc = "call"
    /\ directory \in Trees
    /\ suffix \in Suffixes
    /\ nc_files = Unused
    /\ table_name = Unused /\ frequency = Unused
    /\ filename = Unused /\ file_format = Unused /\ decoded = Unused
    /\ metadata = Unused /\ cube = Unused /\ checked = Unused
    /\ data_start = Unused /\ data_end = Unused
    /\ draws = Unused /\ point_index = Unused /\ cfreader = Unused
    /\ contents = Unused
    /\ args = Unused /\ data_files = Unused /\ position = Unused
    /\ num_errors_found = Unused /\ output = Unused /\ exit_status = Unused

ListFiles ==
    /\ pc = "call"
    /\ nc_files' = list_files(directory, suffix)
    /\ pc' = "done"
    /\ UNCHANGED <<table_name, frequency, filename, file_format, decoded,
                   metadata, cube, data_start, data_end, checked>>
    /\ UNCHANGED <<point_vars, directory, suffix, main_vars>>

NextListFiles == ListFiles

SpecListFiles == InitListFiles /\ [][NextListFiles]_vars

----------------------------------------------------------------------------
(* Inputs of the data-point checks, and one call of either *)

\* the most dimensions of a data array
MaxRank == 2

\* the longest dimension of a data array
MaxDim == 2

\* the shapes: empty dimensions are among them
Shapes == UNION {[1..rank -> 0..MaxDim] : rank \in 0..MaxRank}

\* the index tuples of the elements of an array of a shape
IndicesOf(shape) ==
    {index \in [1..Len(shape) -> 0..(MaxDim - 1)] :
        \A i \in 1..Len(shape) : index[i] < shape[i]}

\* the arrays of a shape: every element can be read, or the last one cannot,
\* or none can
DataOf(shape) ==
    {[shape |-> shape, unreadable |-> u] :
        u \in {{}, IndicesOf(shape),
               {index \in IndicesOf(shape) :
                    \A i \in 1..Len(shape) : index[i] = shape[i] - 1}}}

DataArrays == UNION {DataOf(shape) : shape \in Shapes}

\* a variable of the file that is no cell measure
Latitude == [cf_name |-> "lat", cf_data |-> [shape |-> <<1>>, unreadable |-> {}]]

\* the data source of a check: a cube of the data and a reader of a file that
\* holds the same data as the cell measure areacella, or holds no areacella
DataSources ==
    UNION {{[cube |-> [data |-> data],
             cfreader |-> [cf_group |-> <<Latitude>> \o measures]] :
               measures \in {<<>>, <<[cf_name |-> "areacella",
                                       cf_data |-> data]>>}} :
           data \in DataArrays}

InitDataPoint ==
    /\ pc = "call"
    /\ \E source \in DataSources :
           /\ cube = source.cube
           /\ cfreader = source.cfreader
           /\ draws \in [1..Len(source.cube.data.shape) ->
                            0..(RandomResolution - 1)]
    /\ metadata = [basename |-> "file.nc", cmor_name |-> "areacella"]
    /\ checked = Unused /\ point_index = Unused
    /\ table_name = Unused /\ frequency = Unused
    /\ filename = Unused /\ file_format = Unused /\ decoded = Unused
    /\ data_start = Unused /\ data_end = Unused
    /\ contents = Unused
    /\ directory = Unused /\ suffix = Unused /\ nc_files = Unused
    /\ args = Unused /\ data_files = Unused /\ position = Unused
    /\ num_errors_found = Unused /\ output = Unused /\ exit_status = Unused

CheckDataPoint ==
    /\ pc = "call"
    /\ LET call == _check_data_point(cube, metadata, draws)
       IN  checked' = call.outcome /\ point_index' = call.point_index
    /\ pc' = "data point"
    /\ UNCHANGED <<table_name, frequency, filename, file_format, decoded,
                   metadata, cube, data_start, data_end>>
    /\ UNCHANGED <<draws, cfreader, contents, listing_vars, main_vars>>

CheckCellMeasurePoint ==
    /\ pc = "call"
    /\ LET call == _check_cell_measure_point(cfreader, metadata, draws)
       IN  checked' = call.outcome /\ point_index' = call.point_index
    /\ pc' = "cell measure point"
    /\ UNCHANGED <<table_name, frequency, filename, file_format, decoded,
                   metadata, cube, data_start, data_end>>
    /\ UNCHANGED <<draws, cfreader, contents, listing_vars, main_vars>>

NextDataPoint == CheckDataPoint \/ CheckCellMeasurePoint

SpecDataPoint == InitDataPoint /\ [][NextDataPoint]_vars

----------------------------------------------------------------------------
(* Inputs of identify_contents_metadata, and one call of it *)

\* the global attributes of a file: each of the three that the function
\* reads is there or not
Attributes ==
    {[a \in {"Conventions"} \cup present |->
         CASE a = "Conventions" -> "CF-1.7"
           [] a = "activity_id" -> activity
           [] a = "institution_id" -> "ABCD"
           [] a = "institute_id" -> "EFGH"] :
        present \in SUBSET {"activity_id", "institution_id", "institute_id"},
        activity \in {"ZYXW", "CMIP"}}

\* time units with a calendar
CalendarUnits ==
    [origin |-> [year |-> 1970, month |-> 1, day |-> 1, hour |-> 0,
                 minute |-> 0, second |-> 0, microsecond |-> 0],
     calendar |-> "gregorian"]

\* cubes with and without a time coordinate
ContentCubes ==
    LET described ==
            {[var_name |-> var_name, units |-> units, long_name |-> "air",
              standard_name |-> "air_potential_temperature",
              attributes |-> attributes] :
                var_name \in {"clt", "tas"}, units \in {"K", "1"},
                attributes \in Attributes}
    IN  described \cup
        {c @@ [time |-> [units |-> CalendarUnits, points |-> <<0>>]] :
            c \in described}

InitContents ==
    /\ pc = "call"
    /\ cube \in ContentCubes
    /\ filename \in {"abc.nc", "/data/clt_Amon_Monty_historical_r1i1p1_185912-188411.nc"}
    /\ contents = Unused
    /\ table_name = Unused /\ frequency = Unused
    /\ file_format = Unused /\ decoded = Unused
    /\ metadata = Unused /\ checked = Unused
    /\ data_start = Unused /\ data_end = Unused
    /\ draws = Unused /\ point_index = Unused /\ cfreader = Unused
    /\ directory = Unused /\ suffix = Unused /\ nc_files = Unused
    /\ args = Unused /\ data_files = Unused /\ position = Unused
    /\ num_errors_found = Unused /\ output = Unused /\ exit_status = Unused

IdentifyContentsMetadata ==
    /\ pc = "call"
    /\ contents' = identify_contents_metadata(cube, filename)
    /\ pc' = "done"
    /\ UNCHANGED <<table_name, frequency, filename, file_format, decoded,
                   metadata, cube, data_start, data_end, checked>>
    /\ UNCHANGED <<draws, point_index, cfreader, listing_vars, main_vars>>

NextContents == IdentifyContentsMetadata

SpecContents == InitContents /\ [][NextContents]_vars

----------------------------------------------------------------------------
(* The files that the scripts validate: what iris finds at a path *)

\* a cube of two times of December 2014, whose data can be read
MonthlyCube ==
    [var_name |-> "clt", units |-> "1", long_name |-> "cloud",
     standard_name |-> "cloud_area_fraction",
     attributes |-> [Conventions |-> "CF-1.7", institution_id |-> "MOHC"],
     time |-> [units |-> [origin |-> TimeUnits.origin, calendar |-> "gregorian"],
               points |-> <<0, Seconds(34)>>],
     cell_methods |-> <<>>,
     data |-> [shape |-> <<2>>, unreadable |-> {}]]

\* a file that passes every check under CMIP5
ValidName == "clt_Amon_Monty_historical_r1i1p1_201412-201412.nc"

\* a file whose name has a single section
ShortName == "abc.nc"

\* a file whose dates are too short for its table
BadDateName == "clt_Amon_Monty_historical_r1i1p1_2014-2014.nc"

\* a climatology whose time coordinate has no bounds
ClimatologyName == "clt_Amon_Monty_historical_r1i1p1_201412-201412-clim.nc"

\* a file whose last data element cannot be read
DamagedName == "clt_Amon_Monty_historical_r2i1p1_201412-201412.nc"

\* a file of a hybrid-height variable, on which iris.load raises
\* AttributeError
HybridName == "clt_Amon_Monty_historical_r3i1p1_201412-201412.nc"

\* a path at which there is no file
MissingName == "clt_Amon_Monty_historical_r4i1p1_201412-201412.nc"

\* the cube of the data variable of the file of a path
stored_cube(path) ==
    IF basename_of(path) = DamagedName
    THEN [MonthlyCube EXCEPT !.data.unreadable = {<<1>>}]
    ELSE MonthlyCube

\* iris.load(filename)
iris_load(path) ==
    LET basename == basename_of(path)
    IN  CASE basename = MissingName -> Raise("IOError", "No such file")
          [] basename = HybridName ->
                 Raise("AttributeError", "'NoneType' object has no attribute")
          [] OTHER -> Return(<<stored_cube(path)>>)

\* iris.load_raw(filename): the bounds of the levels are a cube of their own
iris_load_raw(path) ==
    IF basename_of(path) = MissingName THEN Raise("IOError", "No such file")
    ELSE Return(<<[MonthlyCube EXCEPT !.var_name = "lev_bnds",
                                      !.long_name = "level+1/2"],
                  stored_cube(path)>>)

\* iris.fileformats.cf.CFReader(filename): the variables and the global
\* attributes of the file
CFReader(path) ==
    LET raw == iris_load_raw(path)
    IN  IF ~Returned(raw) THEN raw
        ELSE Return(
            [cf_group |->
                 [i \in 1..Len(raw.value) |->
                     [cf_name |-> raw.value[i].var_name,
                      ncattrs |-> [units |-> raw.value[i].units,
                                   long_name |-> raw.value[i].long_name,
                                   standard_name |-> raw.value[i].standard_name],
                      cf_data |-> raw.value[i].data]],
             global_attributes |-> raw.value[Len(raw.value)].attributes])

----------------------------------------------------------------------------
(* load_cube and the validation of one file *)

\* the fix of load_cube for hybrid-height variables: the cubes named *_bnds
\* are bounds, the last other cube is the data.  The bounds are set on a
\* coordinate of the data cube that is not the time coordinate; the raw
\* cubes of the model name a coordinate that the data cube has.
hybrid_height_cubes(raw) ==
    LET bounds_cubes == {i \in 1..Len(raw) : endswith(raw[i].var_name, "_bnds")}
        data_cubes == (1..Len(raw)) \ bounds_cubes
    IN  IF bounds_cubes = {} \/ data_cubes = {}
        THEN Raise("FileValidationError",
                   "Unable to find data and bounds when fixing hybrid height bounds")
        ELSE Return(<<raw[CHOOSE i \in data_cubes : \A j \in data_cubes : j <= i]>>)

load_cube(name) ==
    LET loaded == iris_load(name)
        cubes == IF ~Raised(loaded, "AttributeError") THEN loaded
                 ELSE LET raw == iris_load_raw(name)
                      IN  IF ~Returned(raw) THEN raw
                          ELSE hybrid_height_cubes(raw.value)
    IN  IF ~Returned(cubes)
        THEN Raise("FileValidationError",
                   "Unable to load data from file: " \o name)
        ELSE LET var_name == split(basename_of(name), "_")[1]
                 var_cubes == SelectSeq(cubes.value,
                                        LAMBDA lcube : lcube.var_name = var_name)
             IN  IF var_cubes = <<>>
                 THEN Raise("FileValidationError",
                            "Filename '" \o name
                                \o "' does not load to a single variable")
                 ELSE Return(var_cubes[1])

\* the three checks in turn; the function returns None
validate_file_contents(a_cube, a_metadata, some_draws) ==
    LET times == _check_start_end_times(a_cube, a_metadata).outcome
        contiguity == _check_contiguity(a_cube, a_metadata)
        data_point == _check_data_point(a_cube, a_metadata, some_draws).outcome
    IN  IF ~Returned(times) THEN times
        ELSE IF ~Returned(contiguity) THEN contiguity
        ELSE IF ~Returned(data_point) THEN data_point
        ELSE Return(None)

validate_cell_measures_contents(a_cfreader, a_metadata, some_draws) ==
    LET data_point ==
            _check_cell_measure_point(a_cfreader, a_metadata, some_draws).outcome
    IN  IF ~Returned(data_point) THEN data_point ELSE Return(None)

\* metadata.update(other): the keys of other replace those of metadata
update(a_metadata, other) == other @@ a_metadata

\* a step of the try statement of the loop of main was reached: its variable
\* holds what the step returned or raised
Reached(step) == step # Unused

----------------------------------------------------------------------------
(* main of validate_data.py and of validate_directory.py *)

\* the most files of the directory named on the command line
MaxFiles == 2

\* the files of a directory
DirectoryNames ==
    {ValidName, ShortName, BadDateName, ClimatologyName, DamagedName}

\* the directories: at most MaxFiles files, and with or without a
\* sub-directory of one file
Directories ==
    {[path |-> "d", isdir |-> TRUE, entries |-> files \o sub] :
        files \in FilesUpTo(DirectoryNames, MaxFiles),
        sub \in {<<>>} \cup {<<Dir("sub", <<File(n)>>)>> : n \in DirectoryNames}}

\* the single files that validate_data.py -s is run on
SingleFiles ==
    {[path |-> "d/" \o n, isdir |-> FALSE, entries |-> <<>>] :
        n \in DirectoryNames \cup {HybridName, MissingName}}

\* the runs: the command line and what it names.  validate_directory.py has
\* neither -s nor -c.
Runs ==
    {[args |-> [script |-> script, file_format |-> "CMIP5",
                single_file |-> FALSE, cell_measure |-> FALSE],
      directory |-> d] :
        script \in {"validate_data.py", "validate_directory.py"},
        d \in Directories}
    \cup
    {[args |-> [script |-> "validate_data.py", file_format |-> "CMIP5",
                single_file |-> FALSE, cell_measure |-> TRUE],
      directory |-> d] : d \in Directories}
    \cup
    {[args |-> [script |-> "validate_data.py", file_format |-> format,
                single_file |-> TRUE, cell_measure |-> cell_measure],
      directory |-> f] :
        format \in {"CMIP5", "CMIP6", "CMIP7"}, cell_measure \in BOOLEAN,
        f \in SingleFiles}

InitMain ==
    /\ pc = "main"
    /\ \E run \in Runs : args = run.args /\ directory = run.directory
    /\ data_files = <<>> /\ position = 0
    /\ num_errors_found = 0 /\ output = <<>>
    /\ exit_status = None
    /\ suffix = Unused /\ nc_files = Unused
    /\ table_name = Unused /\ frequency = Unused
    /\ filename = "" /\ checked = Unused
    /\ file_format = Unused /\ decoded = Unused
    /\ metadata = Unused /\ cube = Unused
    /\ data_start = Unused /\ data_end = Unused
    /\ draws = Unused /\ point_index = Unused /\ cfreader = Unused
    /\ contents = Unused

\* main up to its loop: the files to validate.  The paths of the model have
\* no ~ and no $, which expanduser and expandvars would replace.
FindDataFiles ==
    /\ pc = "main"
    /\ LET found == IF args.single_file THEN <<directory.path>>
                    ELSE list_files(directory, ".nc")
       IN  IF found = <<>>
           THEN /\ exit_status' = 1
                /\ pc' = "exited"
                /\ UNCHANGED data_files
           ELSE /\ data_files' = found
                /\ pc' = "loop"
                /\ UNCHANGED exit_status
    /\ UNCHANGED <<call_vars, point_vars, listing_vars>>
    /\ UNCHANGED <<args, position, num_errors_found, output>>

\* one turn of the loop of main: the try statement for the next file, with
\* its except and else clauses.  decoded, cube or cfreader, and contents hold
\* what the steps of the try statement returned or raised (Unused for a step
\* that was not reached), metadata the updated dict, checked what the whole
\* body returned (the metadata) or raised.  An exception that is no
\* FileValidationError is not caught: the script ends with a traceback and
\* the exit status 1.
ValidateFile ==
    /\ pc = "loop"
    /\ position < Len(data_files)
    /\ filename' = data_files[position + 1]
    /\ \E some_draws \in [1..Len(MonthlyCube.data.shape) ->
                             0..(RandomResolution - 1)] : draws' = some_draws
    /\ decoded' = identify_filename_metadata(filename', args.file_format)
    /\ IF ~args.cell_measure
       THEN /\ cfreader' = Unused
            /\ cube' = IF Returned(decoded') THEN load_cube(filename')
                       ELSE Unused
            /\ contents' = IF Reached(cube') /\ Returned(cube')
                           THEN identify_contents_metadata(cube'.value, filename')
                           ELSE Unused
       ELSE /\ cube' = Unused
            /\ cfreader' = IF Returned(decoded') THEN CFReader(filename')
                           ELSE Unused
            /\ contents' = IF Reached(cfreader') /\ Returned(cfreader')
                           THEN identify_cell_measures_metadata(cfreader'.value,
                                                                filename')
                           ELSE Unused
    /\ metadata' = IF Reached(contents') /\ Returned(contents')
                   THEN update(decoded'.value, contents'.value)
                   ELSE Unused
    /\ checked' =
           IF ~Returned(decoded') THEN decoded'
           ELSE IF Reached(cube') /\ ~Returned(cube') THEN cube'
           ELSE IF Reached(cfreader') /\ ~Returned(cfreader') THEN cfreader'
           ELSE IF ~Returned(contents') THEN contents'
           ELSE LET valid ==
                        IF ~args.cell_measure
                        THEN validate_file_contents(cube'.value, metadata',
                                                    draws')
                        ELSE validate_cell_measures_contents(
                                 cfreader'.value, metadata', draws')
                IN  IF Returned(valid) THEN Return(metadata') ELSE valid
    /\ IF Returned(checked')
       THEN /\ output' = Append(output, checked'.value)
            /\ position' = position + 1
            /\ UNCHANGED <<num_errors_found, exit_status, pc>>
       ELSE IF Raised(checked', "FileValidationError")
       THEN /\ num_errors_found' = num_errors_found + 1
            /\ position' = position + 1
            /\ UNCHANGED <<output, exit_status, pc>>
       ELSE /\ exit_status' = 1
            /\ pc' = "traceback"
            /\ UNCHANGED <<output, num_errors_found, position>>
    /\ UNCHANGED <<table_name, frequency, file_format, data_start, data_end,
                   point_index>>
    /\ UNCHANGED <<listing_vars, args, data_files>>

\* a plausible slip: one failed file is let through
status_of_many(errors) == IF errors > 1 THEN 1 ELSE 0

\* the exit status for a number of files that failed validation
status_of(errors) == IF errors # 0 THEN 1 ELSE 0

\* main after its loop: the exit status
Exit ==
    /\ pc = "loop"
    /\ position = Len(data_files)
    /\ exit_status' = status_of(num_errors_found)
    /\ pc' = "exited"
    /\ UNCHANGED <<call_vars, point_vars, listing_vars>>
    /\ UNCHANGED <<args, data_files, position, num_errors_found, output>>

NextMain == FindDataFiles \/ ValidateFile \/ Exit

SpecMain == InitMain /\ [][NextMain]_vars

----------------------------------------------------------------------------
(* What the claims about the decoder speak of *)

\* the basename of the call, and that basename without its suffix
Basename == basename_of(filename)

HasSuffix == endswith(Basename, ".nc")

Stem ==
    IF endswith(Basename, "-clim.nc") THEN SubSeq(Basename, 1, Len(Basename) - 8)
    ELSE SubSeq(Basename, 1, Len(Basename) - 3)

\* the pieces of s between its occurrences of the character sep, in order
PiecesOf(s, sep) ==
    LET cuts == {i \in 1..Len(s) : SubSeq(s, i, i) = sep} \cup {0, Len(s) + 1}
        nth(k) == CHOOSE c \in cuts : Cardinality({d \in cuts : d < c}) = k
    IN  [k \in 1..(Cardinality(cuts) - 1) |->
            SubSeq(s, nth(k - 1) + 1, nth(k) - 1)]

\* the '_'-separated tokens of the basename without its suffix
Tokens == PiecesOf(Stem, "_")

\* 'present', 'day' at token positions 3 and 4, counted from 0
PresentDayPair(toks) ==
    Len(toks) >= 5 /\ toks[4] = "present" /\ toks[5] = "day"

\* the tokens after the merge of 'present' and 'day'
Merged(toks) ==
    IF PresentDayPair(toks)
    THEN SubSeq(toks, 1, 3) \o <<"present_day">> \o SubSeq(toks, 6, Len(toks))
    ELSE toks

SchemaSize == IF file_format = "CMIP5" THEN 6 ELSE 7

KnownFormat == file_format \in {"CMIP5", "CMIP6"}

IsDecimal(s) == s # "" /\ \A i \in 1..Len(s) : SubSeq(s, i, i) \in Digits

\* the number of characters that a date string of a frequency is to have;
\* 0 for a frequency that has no date layout
ExpectedWidth(freq) ==
    CASE freq \in {"yr", "dec"} -> 4
      [] freq = "mon" -> 6
      [] freq = "day" -> 8
      [] freq \in {"6hr", "3hr", "1hr", "hr"} -> 12
      [] freq = "subhr" -> 14
      [] OTHER -> 0

\* the call is over and the basename has exactly the schema's number of
\* tokens toks, without the 'present', 'day' pair
FullName(toks) ==
    /\ pc = "done" /\ KnownFormat /\ HasSuffix
    /\ Len(toks) = SchemaSize /\ ~PresentDayPair(toks)

----------------------------------------------------------------------------
(* C1 *)

\* C1: a basename that splits into exactly the schema's number of tokens (6
\* for CMIP5, 7 for CMIP6), without 'present', 'day' at positions 3 and 4, and
\* whose last token has two hyphen-separated halves that parse at the table's
\* frequency, is decoded: token i is the i-th schema field, unchanged, and
\* start_date and end_date are the dates parsed from the two halves.
\* clt_Amon_Monty_historical_r1i1p1_185912-188411.nc under CMIP5 yields clt,
\* Amon, Monty, historical, r1i1p1, (1859, 12), (1884, 11).
C1_TokensToFields ==
    pc = "done" =>
    LET toks == Tokens
        halves == PiecesOf(toks[SchemaSize], "-")
        freq == _get_frequency(toks[2])
        start == _make_partial_date_time(halves[1], freq.value)
        end == _make_partial_date_time(halves[2], freq.value)
    IN  /\ (FullName(toks) /\ Len(halves) = 2 /\ Returned(freq)
                /\ Returned(start) /\ Returned(end)) =>
            /\ Returned(decoded)
            /\ decoded.value.cmor_name = toks[1]
            /\ decoded.value.table = toks[2]
            /\ decoded.value.climate_model = toks[3]
            /\ decoded.value.experiment = toks[4]
            /\ decoded.value.rip_code = toks[5]
            /\ file_format = "CMIP6" => decoded.value.grid = toks[6]
            /\ file_format = "CMIP5" => "grid" \notin DOMAIN decoded.value
            /\ decoded.value.start_date = start.value
            /\ decoded.value.end_date = end.value
        /\ (file_format = "CMIP5" /\ filename =
                "clt_Amon_Monty_historical_r1i1p1_185912-188411.nc") =>
            /\ Returned(decoded)
            /\ decoded.value.cmor_name = "clt" /\ decoded.value.table = "Amon"
            /\ decoded.value.climate_model = "Monty"
            /\ decoded.value.experiment = "historical"
            /\ decoded.value.rip_code = "r1i1p1"
            /\ decoded.value.start_date = [year |-> 1859, month |-> 12]
            /\ decoded.value.end_date = [year |-> 1884, month |-> 11]
        /\ (file_format = "CMIP6" /\ filename =
                "prc_day_HadGEM3_highres-future_r1i1p1f1_gn_19500101-19501230.nc") =>
            /\ Returned(decoded)
            /\ decoded.value.table = "day"
            /\ decoded.value.climate_model = "HadGEM3"
            /\ decoded.value.grid = "gn"
            /\ decoded.value.start_date = [year |-> 1950, month |-> 1, day |-> 1]
            /\ decoded.value.end_date = [year |-> 1950, month |-> 12, day |-> 30]

\* a seven-token name has been decoded under CMIP6, at minute precision
C1_Witness ==
    /\ pc = "done" /\ file_format = "CMIP6" /\ Returned(decoded)
    /\ FullName(Tokens)
    /\ decoded.value.grid = "gn" /\ decoded.value.table = "6hrPlev"
    /\ decoded.value.start_date =
           [year |-> 1859, month |-> 12, day |-> 1, hour |-> 6, minute |-> 30]

----------------------------------------------------------------------------
(* C3 *)

\* C3: when a half of the date range is a string of decimal digits whose
\* length differs from the width that the table's frequency expects (yr and
\* dec 4, mon 6, day 8, 6hr, 3hr, 1hr and hr 12, subhr 14), be it shorter or
\* longer, identify_filename_metadata raises FileValidationError.
C3_WrongWidthRefused ==
    pc = "done" =>
    LET toks == Tokens
        halves == PiecesOf(toks[SchemaSize], "-")
        freq == _get_frequency(toks[2])
        width == ExpectedWidth(freq.value)
    IN  (/\ FullName(toks) /\ Len(halves) = 2 /\ Returned(freq) /\ width # 0
         /\ IsDecimal(halves[1]) /\ IsDecimal(halves[2])
         /\ Len(halves[1]) # width \/ Len(halves[2]) # width)
        => Raised(decoded, "FileValidationError")

----------------------------------------------------------------------------
(* C4 *)

\* C4, as claimed: a basename that has, after the merge of 'present' and
\* 'day', fewer tokens than the schema has fields is refused with a
\* FileValidationError.
C4_ShortNameRefused ==
    (pc = "done" /\ KnownFormat /\ HasSuffix
        /\ Len(Merged(Tokens)) < SchemaSize)
        => Raised(decoded, "FileValidationError")

\* C4, amended: such a basename is never refused with a FileValidationError.
\* With five tokens or more before the merge, or with four of which the last
\* is not 'present', a record is returned that gives the tokens to the leading
\* schema fields and has start_date and end_date None; with fewer tokens, or
\* with four of which the last is 'present', IndexError is raised.
C4_ShortNameDecoded ==
    (pc = "done" /\ KnownFormat /\ HasSuffix) =>
    LET toks == Tokens
        merged == Merged(toks)
    IN  Len(merged) < SchemaSize =>
        IF Len(toks) >= 5 \/ (Len(toks) = 4 /\ toks[4] # "present")
        THEN /\ Returned(decoded)
             /\ decoded.value.start_date = None
             /\ decoded.value.end_date = None
             /\ \A i \in 1..Len(merged) :
                    decoded.value[components(file_format)[i]] = merged[i]
             /\ \A i \in (Len(merged) + 1)..(SchemaSize - 1) :
                    components(file_format)[i] \notin DOMAIN decoded.value
        ELSE Raised(decoded, "IndexError")

\* a five-token name has been decoded under CMIP5 without dates, and a
\* three-token name has raised IndexError
C4_Witness ==
    /\ pc = "done" /\ HasSuffix
    /\ \/ /\ file_format = "CMIP5" /\ Len(Merged(Tokens)) = 5
          /\ Returned(decoded) /\ decoded.value.start_date = None
          /\ decoded.value.rip_code = "r1i1p1"
       \/ /\ Len(Tokens) = 3 /\ Raised(decoded, "IndexError")

----------------------------------------------------------------------------
(* What the claims about the checks of the time axis speak of *)

\* the days from 1 January 2014 to a date
DaysSince2014(date) ==
    LET leaps_before(y) == (y - 1) \div 4 - (y - 1) \div 100 + (y - 1) \div 400
        month_lengths == <<31, IF is_leap(date.year) THEN 29 ELSE 28, 31, 30,
                           31, 30, 31, 31, 30, 31, 30, 31>>
        RECURSIVE days_before_month(_)
        days_before_month(m) ==
            IF m = 1 THEN 0 ELSE days_before_month(m - 1) + month_lengths[m - 1]
    IN  365 * (date.year - 2014) + leaps_before(date.year) - leaps_before(2014)
            + days_before_month(date.month) + date.day - 1

\* a datetime of the calendar
IsDatetime(dt) ==
    /\ DOMAIN dt = {"year", "month", "day", "hour", "minute", "second",
                    "microsecond"}
    /\ dt.month \in 1..12
    /\ dt.day \in 1..days_in_month(dt.year, dt.month)
    /\ dt.hour \in 0..23 /\ dt.minute \in 0..59 /\ dt.second \in 0..59
    /\ dt.microsecond \in 0..999999

\* the ticks from the start of 2014 to a datetime
TicksOf(dt) ==
    (DaysSince2014(dt) * 86400 + dt.hour * 3600 + dt.minute * 60 + dt.second)
        * TicksPerSecond + dt.microsecond \div MicrosPerTick

\* dt is the time of the value `ticks` of the time coordinate
IsTimeOf(dt, ticks) ==
    /\ IsDatetime(dt)
    /\ dt.microsecond % MicrosPerTick = 0
    /\ TicksOf(dt) = TicksOf(cube.time.units.origin) + ticks

\* dt is the whole minute nearest to the time of the value `ticks`, the later
\* one when both are as near
IsNearestMinuteOf(dt, ticks) ==
    /\ IsDatetime(dt)
    /\ dt.second = 0 /\ dt.microsecond = 0
    /\ LET away == TicksOf(dt) - (TicksOf(cube.time.units.origin) + ticks)
       IN  0 - Seconds(30) < away /\ away <= Seconds(30)

\* a declared date equals a time of the data: it is set, and each field that
\* it populates has the value of the data's field
Matches(declared, dt) ==
    declared # None /\ \A f \in DOMAIN declared : declared[f] = dt[f]

Climatology == endswith(metadata.basename, "-clim.nc")

Rounding ==
    metadata.frequency \in {"6hr", "3hr", "1hr", "6hrPt", "3hrPt", "1hrPt"}

FirstPoint == cube.time.points[1]

LastPoint == cube.time.points[Len(cube.time.points)]

StartMismatch(r) ==
    /\ Raised(r, "FileValidationError")
    /\ r.msg = "Start date in filename does not match the first time in the file"

EndMismatch(r) ==
    /\ Raised(r, "FileValidationError")
    /\ r.msg = "End date in filename does not match the last time in the file"

----------------------------------------------------------------------------
(* C5 *)

\* C5: when the metadata's start_date is None, the start and end time check
\* is skipped and succeeds, whatever the time axis holds.
C5_UnsetStartSkipped ==
    (pc = "done" /\ metadata.start_date = None) => checked = Return(TRUE)

----------------------------------------------------------------------------
(* C6 *)

\* C6: for a file that is no climatology and whose frequency is not rounded,
\* the check returns True exactly when the declared start equals the first
\* time point and the declared end equals the last, on the fields that the
\* declared date populates; otherwise it raises FileValidationError, for the
\* start whenever the start differs and for the end only when the start
\* matches.
C6_TrueIffBothMatch ==
    (pc = "done" /\ has_time(cube) /\ ~Climatology /\ ~Rounding) =>
    LET first == num2date(cube.time.units, FirstPoint)
        last == num2date(cube.time.units, LastPoint)
        start_ok == Matches(metadata.start_date, first)
        end_ok == Matches(metadata.end_date, last)
    IN  /\ IsTimeOf(first, FirstPoint) /\ IsTimeOf(last, LastPoint)
        /\ checked = Return(TRUE) <=> (start_ok /\ end_ok)
        /\ ~start_ok => StartMismatch(checked)
        /\ (start_ok /\ ~end_ok) => EndMismatch(checked)

\* a monthly file whose declared start matched and whose declared end did not
\* has been refused for its end
C6_Witness ==
    /\ pc = "done" /\ has_time(cube) /\ ~Climatology
    /\ metadata.frequency = "mon"
    /\ metadata.start_date = [year |-> 2014, month |-> 12]
    /\ metadata.end_date = [year |-> 2015, month |-> 1]
    /\ EndMismatch(checked)

----------------------------------------------------------------------------
(* C7 *)

\* C7: for the frequencies 6hr, 3hr, 1hr, 6hrPt, 3hrPt and 1hrPt the two
\* times compared are the whole minutes nearest to the data's start and end
\* (seconds below 30 round down, 30 and more round up, carrying into the next
\* hour or day), with no seconds and microseconds; for every other frequency
\* they are the data's start and end, unrounded.  So an end 34 seconds after
\* minute M matches a declared end of minute M + 1 and not one of minute M.
C7_RoundedToNearestMinute ==
    (pc = "done" /\ has_time(cube) /\ ~Climatology) =>
        /\ IF Rounding
           THEN /\ IsNearestMinuteOf(data_start, FirstPoint)
                /\ IsNearestMinuteOf(data_end, LastPoint)
           ELSE /\ IsTimeOf(data_start, FirstPoint)
                /\ IsTimeOf(data_end, LastPoint)
        /\ (Rounding /\ Matches(metadata.start_date, data_start)) =>
            \A m \in 0..1 :
                LastPoint = Seconds(60 * m + 34) =>
                    LET minute(k) == Truncated(
                            add_timedelta(TimeUnits.origin, 60 * k, 0), MinuteFields)
                    IN  /\ metadata.end_date = minute(m + 1)
                            => checked = Return(TRUE)
                        /\ metadata.end_date = minute(m) => EndMismatch(checked)

\* an end of 23:59:34 on 31 December has been rounded into the next year and
\* has matched the declared minute
C7_Witness ==
    /\ pc = "done" /\ has_time(cube) /\ ~Climatology
    /\ metadata.frequency = "3hrPt"
    /\ LastPoint = Seconds(94)
    /\ data_end = [year |-> 2015, month |-> 1, day |-> 1, hour |-> 0,
                   minute |-> 0, second |-> 0, microsecond |-> 0]
    /\ metadata.end_date = Truncated(data_end, MinuteFields)
    /\ checked = Return(TRUE)

----------------------------------------------------------------------------
(* C8 *)

\* the file's times are rounded, its declared start matches, and its last
\* time value is 34 seconds past the minute that the filename declares as
\* the end
EndIs34SecondsPastDeclared ==
    /\ pc = "done" /\ has_time(cube) /\ ~Climatology /\ Rounding
    /\ Matches(metadata.start_date, data_start)
    /\ metadata.end_date # None
    /\ DOMAIN metadata.end_date = MinuteFields
    /\ \E m \in 0..1 :
           /\ LastPoint = Seconds(60 * m + 34)
           /\ metadata.end_date = Truncated(
                  add_timedelta(TimeUnits.origin, 60 * m, 0), MinuteFields)

\* C8, as claimed: for a sub-daily file whose declared start matches and
\* whose last time value is 34 seconds past the declared end minute, the
\* check succeeds after rounding.
C8_Rounded34Succeeds ==
    EndIs34SecondsPastDeclared => checked = Return(TRUE)

\* C8, amended: for such a file (frequency 6hr, 3hr or 1hr) the check raises
\* FileValidationError for the end date: the data's end rounds to the minute
\* after the declared one.
C8_Rounded34Refused ==
    EndIs34SecondsPastDeclared =>
        /\ EndMismatch(checked)
        /\ data_end.minute = (metadata.end_date.minute + 1) % 60

\* such a file has been refused
C8_Witness ==
    /\ EndIs34SecondsPastDeclared
    /\ metadata.frequency = "6hr"
    /\ EndMismatch(checked)

----------------------------------------------------------------------------
(* C9 *)

\* the time of the value `ticks`, after the rounding policy
IsComparedTimeOf(dt, ticks) ==
    IF Rounding THEN IsNearestMinuteOf(dt, ticks) ELSE IsTimeOf(dt, ticks)

\* C9: when the basename ends with '-clim.nc' the data's start is the lower
\* bound of the first bounds pair and its end the upper bound of the last
\* pair, whatever the points are; for every other basename they are the first
\* and the last time point, whatever the bounds are.  The check's outcome is
\* that of comparing the declared dates with these two times.
C9_BoundsForClimatology ==
    (pc = "done" /\ has_time(cube)) =>
        IF Climatology
        THEN IF has_bounds(cube.time)
             THEN /\ IsComparedTimeOf(data_start, cube.time.bounds[1][1])
                  /\ IsComparedTimeOf(data_end,
                         cube.time.bounds[Len(cube.time.bounds)][2])
                  /\ checked = Return(TRUE) <=>
                         /\ Matches(metadata.start_date, data_start)
                         /\ Matches(metadata.end_date, data_end)
             ELSE Raised(checked, "TypeError")
        ELSE /\ IsComparedTimeOf(data_start, FirstPoint)
             /\ IsComparedTimeOf(data_end, LastPoint)
             /\ checked = Return(TRUE) <=>
                    /\ Matches(metadata.start_date, data_start)
                    /\ Matches(metadata.end_date, data_end)

\* a climatology has passed on a start taken from its bounds, half a minute
\* before its first point
C9_Witness ==
    /\ pc = "done" /\ has_time(cube) /\ Climatology /\ has_bounds(cube.time)
    /\ metadata.frequency = "mon"
    /\ FirstPoint = 0
    /\ data_start = [year |-> 2014, month |-> 12, day |-> 31, hour |-> 23,
                     minute |-> 57, second |-> 30, microsecond |-> 0]
    /\ data_end.year = 2015
    /\ metadata.end_date = [year |-> 2015, month |-> 1, day |-> 1]
    /\ checked = Return(TRUE)

----------------------------------------------------------------------------
(* C10 *)

\* some cell method of the cube is a point method
HasPointMethod ==
    \E i \in DOMAIN cube.cell_methods : cube.cell_methods[i].method = "point"

\* two consecutive bounds pairs do not share an edge
HasGap ==
    \E i \in 1..(Len(cube.time.bounds) - 1) :
        cube.time.bounds[i][2] # cube.time.bounds[i + 1][1]

\* C10: _check_contiguity returns True when a point cell method is present,
\* whatever the bounds; otherwise, with bounds, it returns True when every
\* pair's upper edge equals the next pair's lower edge and raises
\* FileValidationError when two consecutive pairs leave a gap (as the bounds
\* (0, 1), (2, 3) do); otherwise, without bounds, it returns True.
C10_ContiguityOutcomes ==
    (pc = "done" /\ has_time(cube)) =>
        /\ HasPointMethod => checked = Return(TRUE)
        /\ (~HasPointMethod /\ has_bounds(cube.time)) =>
               IF HasGap THEN Raised(checked, "FileValidationError")
               ELSE checked = Return(TRUE)
        /\ (~HasPointMethod /\ ~has_bounds(cube.time)) => checked = Return(TRUE)
        /\ (has_bounds(cube.time) /\ cube.time.bounds = <<<<0, 1>>, <<2, 3>>>>) =>
               IF HasPointMethod THEN checked = Return(TRUE)
               ELSE Raised(checked, "FileValidationError")

\* the bounds (0, 1), (2, 3) have been refused without a point method and
\* accepted with one
C10_Witness ==
    /\ pc = "done" /\ has_time(cube) /\ has_bounds(cube.time)
    /\ cube.time.bounds = <<<<0, 1>>, <<2, 3>>>>
    /\ \/ cube.cell_methods = <<>> /\ Raised(checked, "FileValidationError")
       \/ HasPointMethod /\ checked = Return(TRUE)

----------------------------------------------------------------------------
(* What the claims about the scripts speak of *)

\* the script has produced its exit status
Ended == pc \in {"exited", "traceback"}

\* the files of the list whose validation raised: those that the loop went
\* through without adding their metadata to _output, and the one whose error
\* ended the script
FilesFailed ==
    (position - Len(output)) + (IF pc = "traceback" THEN 1 ELSE 0)

----------------------------------------------------------------------------
(* C11 *)

\* C11: whatever error the validation of a file raises, it is caught at the
\* file boundary and counted, and the later files are still validated: when the
\* script produces its exit status, the loop has been through every file of
\* the list and has counted every file that raised.
C11_EveryFileProcessed ==
    Ended =>
        /\ position = Len(data_files)
        /\ num_errors_found = FilesFailed

----------------------------------------------------------------------------
(* C12 *)

\* C12, as claimed: for every list of files, the empty one too, the exit
\* status is non-zero exactly when at least one file failed validation.
C12_NonZeroIffFailed ==
    Ended => (exit_status # 0 <=> FilesFailed > 0)

\* C12, amended: for every list of at least one file the exit status is
\* non-zero exactly when at least one file failed validation, and zero
\* otherwise; when no file is found in the directory the exit status is 1,
\* though no file failed.
C12_NonZeroIffFailedOrNoFiles ==
    Ended =>
        /\ exit_status \in {0, 1}
        /\ data_files # <<>> => (exit_status # 0 <=> FilesFailed > 0)
        /\ data_files = <<>> => (exit_status = 1 /\ FilesFailed = 0)

\* a run of validate_directory.py on a directory without files has ended
\* with the status 1
C12_Witness ==
    /\ Ended /\ pc = "exited"
    /\ args.script = "validate_directory.py"
    /\ directory.entries = <<>>
    /\ data_files = <<>> /\ FilesFailed = 0
    /\ exit_status = 1

----------------------------------------------------------------------------
(* C13 *)

\* n as a decimal string of the given width, padded with zeros
RECURSIVE ZeroPadded(_, _)
ZeroPadded(n, width) ==
    IF width = 0 THEN ""
    ELSE ZeroPadded(n \div 10, width - 1)
             \o SubSeq("0123456789", (n % 10) + 1, (n % 10) + 1)

\* a date as a fixed-width string: four digits of the year, two of each
\* further field that the date populates
Encoded(date) ==
    LET two(f) == IF f \in DOMAIN date THEN ZeroPadded(date[f], 2) ELSE ""
    IN  ZeroPadded(date.year, 4) \o two("month") \o two("day") \o two("hour")
            \o two("minute") \o two("second")

\* the name is full and its date range has two halves of decimal digits of
\* the width of the table's frequency
DatesOfWidth(toks) ==
    LET halves == PiecesOf(toks[SchemaSize], "-")
        freq == _get_frequency(toks[2])
    IN  /\ Len(halves) = 2 /\ Returned(freq)
        /\ ExpectedWidth(freq.value) # 0
        /\ \A i \in 1..2 : /\ IsDecimal(halves[i])
                           /\ Len(halves[i]) = ExpectedWidth(freq.value)

\* C13: decoding a filename whose date range has two halves of decimal
\* digits of the width of the resolved frequency, and encoding start_date and
\* end_date again as zero-padded fixed-width strings joined by '-', gives the
\* date-range token back.
C13_DatesRoundTrip ==
    pc = "done" =>
    LET toks == Tokens
    IN  (FullName(toks) /\ DatesOfWidth(toks)) =>
            /\ Returned(decoded)
            /\ Encoded(decoded.value.start_date) \o "-"
                   \o Encoded(decoded.value.end_date) = toks[SchemaSize]

\* a daily range of the years 7 and 10 has been decoded, and one at the
\* precision of seconds
C13_Witness ==
    /\ pc = "done" /\ FullName(Tokens) /\ DatesOfWidth(Tokens)
    /\ Returned(decoded)
    /\ \/ /\ Tokens[SchemaSize] = "00070809-00100203"
          /\ decoded.value.start_date = [year |-> 7, month |-> 8, day |-> 9]
       \/ /\ Tokens[SchemaSize] = "18591201063045-18841130235959"
          /\ decoded.value.end_date.second = 59

----------------------------------------------------------------------------
(* C14 *)

\* C14: when the token of the last schema field does not split on '-' into
\* exactly two parts, identify_filename_metadata raises FileValidationError
\* for an unknown filename format and returns no metadata.
C14_NotTwoHalvesRefused ==
    (pc = "done" /\ KnownFormat /\ HasSuffix) =>
    LET merged == Merged(Tokens)
    IN  (Len(merged) >= SchemaSize
            /\ Len(PiecesOf(merged[SchemaSize], "-")) # 2) =>
            /\ Raised(decoded, "FileValidationError")
            /\ decoded.msg = "Unknown filename format"

\* a date range without a hyphen and one with two hyphens have been refused
C14_Witness ==
    /\ pc = "done" /\ KnownFormat /\ HasSuffix
    /\ Len(Merged(Tokens)) >= SchemaSize
    /\ Tokens[2] = "Amon"
    /\ Merged(Tokens)[SchemaSize] \in {"185912", "1859-12-01"}
    /\ Raised(decoded, "FileValidationError")
    /\ decoded.msg = "Unknown filename format"

----------------------------------------------------------------------------
(* C15 *)

\* the array that the check at hand reads: the cube's data, or the data of
\* the cell measure
ArrayRead ==
    IF pc = "data point" THEN cube.data
    ELSE cfreader.cf_group[Len(cfreader.cf_group)].cf_data

\* a data-point check is over; for a cell measure, the variable was found
PointChecked ==
    \/ pc = "data point"
    \/ /\ pc = "cell measure point"
       /\ cfreader.cf_group[Len(cfreader.cf_group)].cf_name = metadata.cmor_name

\* C15: for every shape whose dimensions are all at least 1 and every draw,
\* both checks build one index per dimension, each from 0 up to but not
\* including the dimension's length; they return True when the element at that
\* index can be read (so always on a source whose elements can all be read)
\* and raise FileValidationError naming the index when the read raises.
C15_IndexInRange ==
    (PointChecked /\ \A i \in DOMAIN ArrayRead.shape : ArrayRead.shape[i] >= 1) =>
        /\ DOMAIN point_index = DOMAIN ArrayRead.shape
        /\ \A i \in DOMAIN point_index :
               0 <= point_index[i] /\ point_index[i] < ArrayRead.shape[i]
        /\ ArrayRead.unreadable = {} => checked = Return(TRUE)
        /\ point_index \notin ArrayRead.unreadable => checked = Return(TRUE)
        /\ point_index \in ArrayRead.unreadable =>
               /\ Raised(checked, "FileValidationError")
               /\ checked.msg.point_index = point_index

\* both checks have read the last element of a 2 by 2 array, and
\* _check_data_point has failed to read it
C15_Witness ==
    /\ PointChecked
    /\ ArrayRead.shape = <<2, 2>>
    /\ point_index = <<1, 1>>
    /\ \/ pc = "cell measure point" /\ checked = Return(TRUE)
       \/ pc = "data point" /\ Raised(checked, "FileValidationError")

----------------------------------------------------------------------------
(* C16 *)

\* C16: identify_contents_metadata sets activity_id to the attribute
\* activity_id, or to 'HighResMIP' without it; institute to the attribute
\* institution_id, or without it to the attribute institute_id; and without
\* either raises FileValidationError with a message that begins 'Unable to
\* extract metadata from the contents of file <filename>'.
C16_ActivityAndInstitute ==
    (pc = "done" /\ has_time(cube)) =>
    LET held(a) == a \in DOMAIN cube.attributes
    IN  IF held("institution_id") \/ held("institute_id")
        THEN /\ Returned(contents)
             /\ contents.value.activity_id =
                    IF held("activity_id") THEN cube.attributes["activity_id"]
                    ELSE "HighResMIP"
             /\ contents.value.institute =
                    IF held("institution_id")
                    THEN cube.attributes["institution_id"]
                    ELSE cube.attributes["institute_id"]
        ELSE /\ Raised(contents, "FileValidationError")
             /\ startswith(contents.msg,
                    "Unable to extract metadata from the contents of file "
                        \o filename)

\* a cube with both institute attributes and without activity_id has been
\* read
C16_Witness ==
    /\ pc = "done" /\ has_time(cube)
    /\ DOMAIN cube.attributes = {"Conventions", "institution_id", "institute_id"}
    /\ Returned(contents)
    /\ contents.value.institute = "ABCD"
    /\ contents.value.activity_id = "HighResMIP"

----------------------------------------------------------------------------
(* C17 *)

\* the paths of the files of a directory, at any depth
RECURSIVE FilePaths(_)
FilePaths(a_directory) ==
    UNION {IF a_directory.entries[k].isdir
           THEN FilePaths([path |-> a_directory.path \o "/"
                                        \o a_directory.entries[k].name,
                           entries |-> a_directory.entries[k].entries])
           ELSE {a_directory.path \o "/" \o a_directory.entries[k].name} :
           k \in 1..Len(a_directory.entries)}

\* C17: for every tree and every suffix, list_files returns exactly the paths
\* of the files at any depth of the tree that end with the suffix, each once.
C17_ListsSuffixAtAnyDepth ==
    pc = "done" =>
        /\ {nc_files[i] : i \in 1..Len(nc_files)} =
               {path \in FilePaths(directory) : endswith(path, suffix)}
        /\ \A i, j \in 1..Len(nc_files) : i # j => nc_files[i] # nc_files[j]

----------------------------------------------------------------------------
(* C18 *)

\* C18: the contiguity check is bypassed only by a point cell method of the
\* time dimension: when the only point methods are of other coordinates and
\* the time axis has bounds with a gap, _check_contiguity raises
\* FileValidationError.
C18_OnlyTimePointBypasses ==
    (/\ pc = "done" /\ has_time(cube) /\ has_bounds(cube.time) /\ HasGap
     /\ \A i \in DOMAIN cube.cell_methods :
            cube.cell_methods[i].method = "point"
                => \A k \in DOMAIN cube.cell_methods[i].coord_names :
                       cube.cell_methods[i].coord_names[k] # "time")
        => Raised(checked, "FileValidationError")

----------------------------------------------------------------------------
(* C19 *)

\* C19: when tokens 3 and 4 (counted from 0) of the basename are 'present'
\* and 'day' they are merged before the fields are assigned: the experiment is
\* 'present_day', the later tokens get the fields they would have had after a
\* one-token experiment, and the dates are parsed from the last token; for any
\* other pair at these positions nothing is merged.
C19_PresentDayMerged ==
    (pc = "done" /\ KnownFormat /\ HasSuffix /\ Returned(decoded)) =>
    LET toks == Tokens
        shift == IF toks[4] = "present" /\ toks[5] = "day" THEN 1 ELSE 0
        last == SchemaSize + shift
    IN  Len(toks) >= 5 =>
        /\ decoded.value.experiment =
               IF shift = 1 THEN "present_day" ELSE toks[4]
        /\ Len(toks) >= 5 + shift => decoded.value.rip_code = toks[5 + shift]
        /\ (file_format = "CMIP6" /\ Len(toks) >= 6 + shift)
               => decoded.value.grid = toks[6 + shift]
        /\ Len(toks) >= last =>
               LET halves == PiecesOf(toks[last], "-")
                   freq == _get_frequency(toks[2]).value
               IN  /\ decoded.value.start_date =
                          _make_partial_date_time(halves[1], freq).value
                   /\ decoded.value.end_date =
                          _make_partial_date_time(halves[2], freq).value
        /\ Len(toks) < last =>
               /\ decoded.value.start_date = None
               /\ decoded.value.end_date = None

\* a present_day name of eight tokens has been decoded under CMIP6
C19_Witness ==
    /\ pc = "done" /\ file_format = "CMIP6" /\ HasSuffix /\ Returned(decoded)
    /\ Len(Tokens) = 8 /\ Tokens[4] = "present" /\ Tokens[5] = "day"
    /\ decoded.value.experiment = "present_day"
    /\ decoded.value.rip_code = "r2i1p1"
    /\ decoded.value.grid = "gn"
    /\ decoded.value.start_date = [year |-> 1859, month |-> 12]
    /\ decoded.value.end_date = [year |-> 1884, month |-> 11]

----------------------------------------------------------------------------
(* C20 *)

\* v occurs in s
Contains(s, v) ==
    \E i \in 1..(Len(s) - Len(v) + 1) : SubSeq(s, i, i + Len(v) - 1) = v

\* C20: the frequency of the returned metadata is the entry of ann, mon, day,
\* 6hr, 3hr, 1hr, subhr, fx that occurs in the lower-cased table field, the
\* earliest of that order when several occur, and '' when none does; it does
\* not depend on the code that _get_frequency resolves for the dates.
C20_FrequencyBySubstring ==
    (pc = "done" /\ Returned(decoded)) =>
    LET vocabulary == <<"ann", "mon", "day", "6hr", "3hr", "1hr", "subhr", "fx">>
        table == lower(decoded.value.table)
        found == {k \in 1..8 : Contains(table, vocabulary[k])}
    IN  /\ found = {} => decoded.value.frequency = ""
        /\ \A k \in found :
               (\A j \in found : k <= j) => decoded.value.frequency = vocabulary[k]
        /\ decoded.value.table = "E1hrClimMon" =>
               /\ decoded.value.frequency = "mon"
               /\ _get_frequency(decoded.value.table) = Return("1hr")
        /\ decoded.value.table = "AERhr" =>
               /\ decoded.value.frequency = ""
               /\ _get_frequency(decoded.value.table) = Return("hr")

\* the table E1hrClimMon, whose dates are parsed to the minute, has been
\* given the frequency mon
C20_Witness ==
    /\ pc = "done" /\ Returned(decoded)
    /\ decoded.value.table = "E1hrClimMon"
    /\ decoded.value.frequency = "mon"
    /\ DOMAIN decoded.value.start_date = MinuteFields

----------------------------------------------------------------------------
(* C21 *)

\* the codes at which _make_partial_date_time parses a date to the minute
MinuteCodes == {"6hr", "3hr", "1hr", "hr"}

\* C21: whenever the table of a decoded filename resolves to one of the codes
\* 6hr, 3hr, 1hr, hr, so that its dates are parsed to the minute, the
\* frequency of the returned metadata is one of those for which
\* _check_start_end_times rounds the data times to the minute.
C21_MinuteDatesAreRounded ==
    (/\ pc = "done" /\ Returned(decoded)
     /\ \E code \in MinuteCodes :
            _get_frequency(decoded.value.table) = Return(code)
     /\ decoded.value.start_date # None
     /\ DOMAIN decoded.value.start_date = MinuteFields)
        => decoded.value.frequency
               \in {"6hr", "3hr", "1hr", "6hrPt", "3hrPt", "1hrPt"}

----------------------------------------------------------------------------
(* C22 *)

\* the step of the loop of main that validates one file: the loop moves to
\* the next file, or the script ends with a traceback
FileValidated == pc = "loop" /\ (position' = position + 1 \/ pc' = "traceback")

\* in this step the metadata of the file went to the end of _output
MetadataAppended ==
    /\ Len(output') = Len(output) + 1
    /\ Returned(checked')
    /\ output' = Append(output, checked'.value)

\* C22: in every state of main num_errors_found plus the length of _output
\* is the number of files that the loop has been through; no step lowers
\* num_errors_found; and the step that validates a file appends the file's
\* metadata to _output exactly when no validation step raised
\* FileValidationError.
C22_CountsAndOutput ==
    [][/\ num_errors_found + Len(output) = position
       /\ num_errors_found' + Len(output') = position'
       /\ num_errors_found' >= num_errors_found
       /\ FileValidated =>
              (MetadataAppended <=> ~Raised(checked', "FileValidationError"))
      ]_vars

====
